---------------------------- MODULE Spec2Model ----------------------------
(***************************************************************************)
(* A model of speach.elan (src/speach/elan.py): the ELAN document engine.  *)
(*                                                                         *)
(* A Doc keeps two representations side by side: the object registries     *)
(* (time_order, tiers, tier_map, ann_map, linguistic_types, vocabs) and    *)
(* the XML tree it was parsed from (xml_root).  Serialisation writes       *)
(* xml_root only; every mutator is responsible for updating both.          *)
(*                                                                         *)
(* Encoding of values:                                                     *)
(*   - tier / type / vocabulary IDs, participants, texts: strings;         *)
(*     None is the string "None" where the code uses Python's None;        *)
(*   - time slot "ts<n>", annotation "a<n>", CV entry IDs: the number n,   *)
(*     0 standing for None;                                                *)
(*   - time values: milliseconds, NoValue standing for None.               *)
(***************************************************************************)
EXTENDS Integers, Sequences, FiniteSets, TLC

VARIABLES
    time_order,        \* Doc.time_order: slot ID -> TimeSlot value
    tiers,             \* Doc.__tiers: sequence of Tier objects
    tier_map,          \* Doc.__tier_map: cached ID -> tier, or reset (None)
    ann_map,           \* Doc.__ann_map: annotation ID -> annotation object
    linguistic_types,  \* Doc.__linguistic_types
    vocabs,            \* Doc.__vocabs: ControlledVocab objects
    cve,               \* the CVEntry objects ever created (by identity)
    author,            \* Doc.__author
    xml_root,          \* Doc.__xml_root: the retained XML tree
    call,              \* the last API call and its arguments
    ret,               \* how the last API call ended
    nops               \* number of API calls made so far

vars == <<time_order, tiers, tier_map, ann_map, linguistic_types, vocabs,
          cve, author, xml_root, call, ret, nops>>

-----------------------------------------------------------------------------
(* Bounds of the model *)

\* the number of API calls made on a Doc, per specification
MaxOps == 2
MaxTierOps == 3
MaxAnnOps == 2
MaxVocabOps == 3
\* the number of write / read-back cycles on a parsed Doc
MaxCycles == 2
MaxEntryOps == 3
MaxOrderOps == 3
MaxUnsupportedOps == 2

-----------------------------------------------------------------------------
(* Values *)

None == "None"
NoValue == -1
NoID == 0

INCL == "Included_In"
TIME_SUB == "Time_Subdivision"
SYM_SUB == "Symbolic_Subdivision"
SYM_ASSOC == "Symbolic_Association"

\* Python truthiness of an optional string
Truthy(s) == s # None /\ s # ""

Max(S) == CHOOSE m \in S : \A n \in S : n <= m
Min(S) == CHOOSE m \in S : \A n \in S : m <= n

Indices(s) == 1..Len(s)

\* a list.insert that ignores idx and appends
InsertAtEnd(s, idx, e) == Append(s, e)

\* list.insert(idx, e) with a 0-based idx
InsertAt(s, idx, e) == SubSeq(s, 1, idx) \o <<e>> \o SubSeq(s, idx + 1, Len(s))

\* list.remove / list.index position (1-based) of the first element equal to e
IndexOf(s, e) == Min({i \in Indices(s) : s[i] = e})

RemoveAt(s, i) == SubSeq(s, 1, i - 1) \o SubSeq(s, i + 1, Len(s))

\* a variant of sorted that keeps the order given (the partition of a
\* Time_Subdivision depends on the sort)
unsorted(s) == s

\* sorted(list of numbers)
RECURSIVE sorted(_)
sorted(s) ==
    IF s = <<>> THEN <<>>
    ELSE LET i == CHOOSE i \in Indices(s) :
                      /\ \A j \in Indices(s) : s[i] <= s[j]
                      /\ \A j \in 1..(i - 1) : s[j] # s[i]
         IN  <<s[i]>> \o sorted(RemoveAt(s, i))

\* the elements of a set of numbers in increasing order
RECURSIVE sorted_set(_)
sorted_set(S) == IF S = {} THEN <<>> ELSE <<Min(S)>> \o sorted_set(S \ {Min(S)})

-----------------------------------------------------------------------------
(* The XML tree.  xml_root is a record                                      *)
(*   [AUTHOR, time, tiers, types, vocabs]                                   *)
(* holding the root's children by tag, each list in document order:         *)
(*   time:   TIME_SLOT nodes      [ID, value]                               *)
(*   tiers:  TIER nodes           [TIER_ID, LINGUISTIC_TYPE_REF,            *)
(*                                 PARTICIPANT, PARENT_REF, anns]           *)
(*   anns:   ANNOTATION nodes     [kind, ANNOTATION_ID, TIME_SLOT_REF1,     *)
(*                                 TIME_SLOT_REF2, ANNOTATION_REF,          *)
(*                                 PREVIOUS_ANNOTATION, CVE_REF, text]      *)
(*   types:  LINGUISTIC_TYPE nodes [LINGUISTIC_TYPE_ID, CONSTRAINTS,        *)
(*                                 CONTROLLED_VOCABULARY_REF]               *)
(*   vocabs: CONTROLLED_VOCABULARY nodes [CV_ID, entries], entries being    *)
(*           CV_ENTRY_ML nodes    [node, CVE_ID, text]                      *)
(* `node` is the identity of a CV_ENTRY_ML element (CVEntry objects keep a  *)
(* pointer to their element).                                               *)

TimeSlotNode(id, v) == [ID |-> id, value |-> v]

AlignableNode(id, ts1, ts2, cveref, text) ==
    [kind |-> "ALIGNABLE_ANNOTATION", ANNOTATION_ID |-> id,
     TIME_SLOT_REF1 |-> ts1, TIME_SLOT_REF2 |-> ts2,
     ANNOTATION_REF |-> NoID, PREVIOUS_ANNOTATION |-> NoID,
     CVE_REF |-> cveref, text |-> text]

RefNode(id, ref, prev, cveref, text) ==
    [kind |-> "REF_ANNOTATION", ANNOTATION_ID |-> id,
     TIME_SLOT_REF1 |-> NoID, TIME_SLOT_REF2 |-> NoID,
     ANNOTATION_REF |-> ref, PREVIOUS_ANNOTATION |-> prev,
     CVE_REF |-> cveref, text |-> text]

TierNode(id, type, participant, parent, anns) ==
    [TIER_ID |-> id, LINGUISTIC_TYPE_REF |-> type, PARTICIPANT |-> participant,
     PARENT_REF |-> parent, anns |-> anns]

TypeNode(id, constraints, cvref) ==
    [LINGUISTIC_TYPE_ID |-> id, CONSTRAINTS |-> constraints,
     CONTROLLED_VOCABULARY_REF |-> cvref]

EntryNode(n, id, text) == [node |-> n, CVE_ID |-> id, text |-> text]

VocabNode(id, entries) == [CV_ID |-> id, entries |-> entries]

-----------------------------------------------------------------------------
(* Objects built from XML nodes *)

\* TimeSlot.__init__: int(TIME_VALUE) if TIME_VALUE else None
TimeSlot(node) == node.value

\* Doc._add_timeslot_xml over TIME_ORDER: time_order[ID] = slot, a later
\* slot replacing an earlier one with the same ID
add_timeslot_xml(nodes) ==
    [id \in {nodes[i].ID : i \in Indices(nodes)} |->
        TimeSlot(nodes[Max({i \in Indices(nodes) : nodes[i].ID = id})])]

\* Tier.add_alignable_annotation_xml: the TimeAnnotation of a node
TimeAnnotation(node) ==
    [ID |-> node.ANNOTATION_ID, kind |-> "time", value |-> node.text,
     cve_ref |-> node.CVE_REF,
     from_ts |-> node.TIME_SLOT_REF1, to_ts |-> node.TIME_SLOT_REF2,
     ref_id |-> NoID, ref |-> NoID, previous |-> NoID]

\* Tier.add_ref_annotation_xml: the RefAnnotation of a node, not yet resolved
RefAnnotation(node) ==
    [ID |-> node.ANNOTATION_ID, kind |-> "ref", value |-> node.text,
     cve_ref |-> node.CVE_REF,
     from_ts |-> NoID, to_ts |-> NoID,
     ref_id |-> node.ANNOTATION_REF, ref |-> NoID,
     previous |-> node.PREVIOUS_ANNOTATION]

\* Tier._add_annotation_xml
add_annotation_xml(node) ==
    IF node.kind = "ALIGNABLE_ANNOTATION" THEN TimeAnnotation(node)
    ELSE RefAnnotation(node)

\* add_alignable_annotation_xml raises when a slot ID is not in time_order
AnnotationNodeOk(node, to) ==
    node.kind = "ALIGNABLE_ANNOTATION" =>
        /\ node.TIME_SLOT_REF1 \in DOMAIN to
        /\ node.TIME_SLOT_REF2 \in DOMAIN to

\* Tier.__init__ from a TIER node, which is xml_root.tiers[x]
Tier(node, x) ==
    [ID |-> node.TIER_ID,
     type_ref_id |-> node.LINGUISTIC_TYPE_REF,
     participant |-> node.PARTICIPANT,
     parent_ref |-> IF Truthy(node.PARENT_REF) THEN node.PARENT_REF ELSE None,
     children |-> <<>>,
     annotations |-> [i \in Indices(node.anns) |-> add_annotation_xml(node.anns[i])],
     xml_node |-> x]

\* a Tier.__init__ that takes slot references as they come
TierNodeUnchecked(node, to) == TRUE

TierNodeOk(node, to) ==
    \A i \in Indices(node.anns) : AnnotationNodeOk(node.anns[i], to)

\* LinguisticType.__init__
LinguisticType(node) ==
    [ID |-> node.LINGUISTIC_TYPE_ID, constraints |-> node.CONSTRAINTS,
     controlled_vocabulary_ref |-> node.CONTROLLED_VOCABULARY_REF,
     vocab |-> 0]

\* CVEntry.__init__ from a CV_ENTRY_ML node
CVEntry(node) == [ID |-> node.CVE_ID, value |-> node.text]

\* ControlledVocab.__init__ with _add_child for every entry: the ordered
\* list, and the two indexes in which a later entry replaces an earlier one
ControlledVocab(node) ==
    LET es == node.entries
        last(S) == es[Max(S)].node
    IN  [ID |-> node.CV_ID,
         entries |-> [i \in Indices(es) |-> es[i].node],
         entries_map |-> [id \in {es[i].CVE_ID : i \in Indices(es)} |->
                            last({i \in Indices(es) : es[i].CVE_ID = id})],
         values_map |-> [v \in {es[i].text : i \in Indices(es)} |->
                            last({i \in Indices(es) : es[i].text = v})]]

\* the CVEntry objects of all vocabularies, by the identity of their node
EntryObjects(vnodes) ==
    LET locs == UNION {{<<v, i>> : i \in Indices(vnodes[v].entries)}
                          : v \in Indices(vnodes)}
        of(n) == CHOOSE l \in locs : vnodes[l[1]].entries[l[2]].node = n
    IN  [n \in UNION {{vnodes[v].entries[i].node : i \in Indices(vnodes[v].entries)}
                        : v \in Indices(vnodes)} |->
            CVEntry(vnodes[of(n)[1]].entries[of(n)[2]])]


-----------------------------------------------------------------------------
(* Lookups on a Doc *)

\* Doc.tier_map (property): the cached map, rebuilt from the tier list when
\* it was reset; in the rebuilt map a later tier replaces an earlier one
\* with the same ID
tier_map_of(tm, ts) ==
    IF tm.valid THEN tm.map
    ELSE [id \in {ts[i].ID : i \in Indices(ts)} |->
            Max({i \in Indices(ts) : ts[i].ID = id})]

\* Doc.get_linguistic_type: the first type with that ID, 0 for None
get_linguistic_type(lts, type_id) ==
    IF \E i \in Indices(lts) : lts[i].ID = type_id
    THEN Min({i \in Indices(lts) : lts[i].ID = type_id})
    ELSE 0

\* Doc.get_vocab: the first vocabulary with that ID, 0 for None
get_vocab(vs, vocab_id) ==
    IF \E i \in Indices(vs) : vs[i].ID = vocab_id
    THEN Min({i \in Indices(vs) : vs[i].ID = vocab_id})
    ELSE 0

\* all annotation objects of a tier list, by place <<tier, index>>
Places(ts) == UNION {{<<t, a>> : a \in Indices(ts[t].annotations)} : t \in Indices(ts)}

\* Doc._register_ann for every annotation in tier order, a later annotation
\* replacing an earlier one with the same ID
register_all(ts) ==
    LET later(p, q) == p[1] < q[1] \/ (p[1] = q[1] /\ p[2] <= q[2])
        at(id) == {p \in Places(ts) : ts[p[1]].annotations[p[2]].ID = id}
    IN  [id \in {ts[p[1]].annotations[p[2]].ID : p \in Places(ts)} |->
            CHOOSE p \in at(id) : \A q \in at(id) : later(q, p)]

\* Doc.annotation(ID): the registered annotation object
annotation(ts, am, id) == ts[am[id][1]].annotations[am[id][2]]

-----------------------------------------------------------------------------
(* Doc.parse_eaf_stream = _parse_root, then _resolve_structure *)

\* Doc._parse_root: the raw registries, and whether it raised (a dangling
\* time slot reference, a duplicated tier ID)
parse_root(x) ==
    LET to == add_timeslot_xml(x.time)
        ts == [i \in Indices(x.tiers) |-> Tier(x.tiers[i], i)]
    IN  [ok |-> /\ \A i \in Indices(x.tiers) : TierNodeOk(x.tiers[i], to)
                /\ \A i, j \in Indices(ts) : ts[i].ID = ts[j].ID => i = j,
         author |-> x.AUTHOR,
         time_order |-> to,
         tiers |-> ts,
         linguistic_types |-> [i \in Indices(x.types) |-> LinguisticType(x.types[i])],
         vocabs |-> [i \in Indices(x.vocabs) |-> ControlledVocab(x.vocabs[i])],
         cve |-> EntryObjects(x.vocabs)]

\* Doc._resolve_structure on the raw registries r
resolve_structure(r) ==
    LET lts == [i \in Indices(r.linguistic_types) |->
                  LET lt == r.linguistic_types[i]
                  IN  IF Truthy(lt.controlled_vocabulary_ref)
                      THEN [lt EXCEPT !.vocab = get_vocab(r.vocabs, lt.controlled_vocabulary_ref)]
                      ELSE lt]
        tm  == [id \in {r.tiers[i].ID : i \in Indices(r.tiers)} |->
                  CHOOSE i \in Indices(r.tiers) : r.tiers[i].ID = id]
        am  == register_all(r.tiers)
        typed   == \A i \in Indices(r.tiers) :
                      get_linguistic_type(lts, r.tiers[i].type_ref_id) # 0
        rooted  == \A i \in Indices(r.tiers) :
                      r.tiers[i].parent_ref # None => r.tiers[i].parent_ref \in DOMAIN tm
        linked  == \A id \in DOMAIN am :
                      LET a == annotation(r.tiers, am, id)
                      IN  a.ref_id # NoID => a.ref_id \in DOMAIN am
        kids(p) == LET S == {i \in Indices(r.tiers) : r.tiers[i].parent_ref = r.tiers[p].ID}
                   IN  sorted_set(S)
        resolved(p, a) == LET o == r.tiers[p].annotations[a]
                          IN  IF am[o.ID] = <<p, a>> /\ o.ref_id # NoID
                              THEN [o EXCEPT !.ref = o.ref_id] ELSE o
        untyped(i) == get_linguistic_type(lts, r.tiers[i].type_ref_id) = 0
        bad == {i \in Indices(r.tiers) :
                   \/ untyped(i)
                   \/ r.tiers[i].parent_ref # None /\ r.tiers[i].parent_ref \notin DOMAIN tm}
    IN  [ok |-> r.ok /\ typed /\ rooted /\ linked,
         \* what is raised: by _parse_root, else for the first tier without
         \* a type (None.tiers) or without its parent (tier_map[...]), else
         \* by RefAnnotation.resolve
         error |-> IF ~r.ok THEN "ValueError"
                   ELSE IF bad # {}
                   THEN IF untyped(Min(bad)) THEN "AttributeError" ELSE "KeyError"
                   ELSE IF ~linked THEN "ValueError"
                   ELSE None,
         author |-> r.author,
         time_order |-> r.time_order,
         tiers |-> [p \in Indices(r.tiers) |->
                      [r.tiers[p] EXCEPT
                         !.children = kids(p),
                         !.annotations = [a \in Indices(r.tiers[p].annotations) |->
                                             resolved(p, a)]]],
         tier_map |-> [valid |-> TRUE, map |-> tm],
         ann_map |-> am,
         linguistic_types |-> lts,
         vocabs |-> r.vocabs,
         cve |-> r.cve]

parse_eaf_stream(x) == resolve_structure(parse_root(x))


-----------------------------------------------------------------------------
(* Derived views and serialisation *)

\* TimeAnnotation.from_ts / RefAnnotation.from_ts: the slot ID, NoID for None;
\* a reference annotation delegates to its resolved target
RECURSIVE from_ts(_, _, _)
from_ts(ts, am, a) ==
    IF a.kind = "time" THEN a.from_ts
    ELSE IF a.ref = NoID THEN NoID
    ELSE from_ts(ts, am, annotation(ts, am, a.ref))

RECURSIVE to_ts(_, _, _)
to_ts(ts, am, a) ==
    IF a.kind = "time" THEN a.to_ts
    ELSE IF a.ref = NoID THEN NoID
    ELSE to_ts(ts, am, annotation(ts, am, a.ref))

\* TimeSlot.sec or 0, in milliseconds
SecOr0(v) == IF v = NoValue THEN 0 ELSE v

\* TimeAnnotation.duration; a RefAnnotation has no such attribute (None)
duration(to, a) ==
    IF a.kind = "time" THEN <<SecOr0(to[a.to_ts]) - SecOr0(to[a.from_ts])>> ELSE <<>>

\* one row of Doc.to_csv_rows; a blank cell is <<>>, a number cell <<n>>
csv_row(to, ts, am, t, a) ==
    LET f == from_ts(ts, am, a)
        e == to_ts(ts, am, a)
        d == duration(to, a)
    IN  [tier |-> ts[t].ID, participant |-> ts[t].participant,
         from_ts |-> IF f = NoID THEN <<>> ELSE <<to[f]>>,
         to_ts |-> IF e = NoID THEN <<>> ELSE <<to[e]>>,
         duration |-> IF d = <<>> \/ d = <<0>> THEN <<>> ELSE d,
         text |-> a.value]

\* formatting a slot without a value raises TypeError
csv_row_ok(to, ts, am, a) ==
    LET f == from_ts(ts, am, a)
        e == to_ts(ts, am, a)
    IN  /\ f # NoID => to[f] # NoValue
        /\ e # NoID => to[e] # NoValue

RECURSIVE Flatten(_)
Flatten(ss) == IF ss = <<>> THEN <<>> ELSE Head(ss) \o Flatten(Tail(ss))

\* Doc.to_csv_rows: one row per annotation, tier by tier
to_csv_rows(to, ts, am) ==
    IF \A p \in Places(ts) : csv_row_ok(to, ts, am, ts[p[1]].annotations[p[2]])
    THEN [ok |-> TRUE,
          rows |-> Flatten([t \in Indices(ts) |->
                      [a \in Indices(ts[t].annotations) |->
                          csv_row(to, ts, am, t, ts[t].annotations[a])]])]
    ELSE [ok |-> FALSE, rows |-> <<>>]

\* the entries of every vocabulary, in order, as (ID, value)
vocab_contents(vs, es) ==
    [v \in Indices(vs) |->
        [ID |-> vs[v].ID,
         entries |-> [i \in Indices(vs[v].entries) |-> es[vs[v].entries[i]]]]]

\* a variant of to_xml_str that writes the TIME_SLOT elements without their
\* TIME_VALUE (the round trip depends on the tree being written in full)
to_xml_str_no_values(root) ==
    [root EXCEPT !.time = [i \in Indices(root.time) |->
                              TimeSlotNode(root.time[i].ID, NoValue)]]

\* Doc.to_xml_str: the text of the retained tree.  Text has no element
\* identities: the CV_ENTRY_ML elements are numbered in document order.
to_xml_str(root) ==
    LET RECURSIVE before(_)
        before(v) == IF v = 1 THEN 0
                     ELSE before(v - 1) + Len(root.vocabs[v - 1].entries)
    IN  [root EXCEPT !.vocabs =
            [v \in Indices(root.vocabs) |->
                [root.vocabs[v] EXCEPT !.entries =
                    [i \in Indices(root.vocabs[v].entries) |->
                        [root.vocabs[v].entries[i] EXCEPT !.node = before(v) + i]]]]]

\* Doc.parse_string
parse_string(text) == parse_eaf_stream(text)

\* the document read back from the serialised output of the live one
Reparsed == parse_string(to_xml_str(xml_root))


-----------------------------------------------------------------------------
(* API calls: what was called with which arguments, and how it ended *)

Call(op) ==
    [op |-> op, tier |-> 0, ann |-> NoID,
     tier_id |-> None, type_id |-> None, parent_id |-> None,
     value |-> None, from_ts |-> NoValue, to_ts |-> NoValue,
     ann_ref_id |-> NoID, values |-> <<>>,
     timeslots |-> <<>>, timeslots_given |-> FALSE]

Returned(ids) == [status |-> "ok", anns |-> ids]
Raised(error) == [status |-> error, anns |-> <<>>]

docvars == <<time_order, tiers, tier_map, ann_map, linguistic_types, vocabs,
             cve, author, xml_root>>

\* a call that raised before it changed anything
Rejected(c, error) ==
    /\ call' = c
    /\ ret' = Raised(error)
    /\ nops' = nops + 1
    /\ UNCHANGED docvars

\* the state right after parse_eaf_stream(x) returned a Doc
Loaded(x) ==
    LET d == parse_eaf_stream(x)
    IN  /\ d.ok
        /\ time_order = d.time_order
        /\ tiers = d.tiers
        /\ tier_map = d.tier_map
        /\ ann_map = d.ann_map
        /\ linguistic_types = d.linguistic_types
        /\ vocabs = d.vocabs
        /\ cve = d.cve
        /\ author = d.author
        /\ xml_root = x
        /\ call = Call("parse_eaf_stream")
        /\ ret = Returned(<<>>)
        /\ nops = 0

-----------------------------------------------------------------------------
(* Property setters *)

\* Doc._reset_tier_map: the cache is dropped (None)
reset_tier_map == [valid |-> FALSE, map |-> [id \in {} |-> 0]]

\* Tier.ID setter (also Tier.name): rename tier t
SetTierID(t, value) ==
    LET c == [Call("Tier.ID") EXCEPT !.tier = t, !.tier_id = value]
        x == tiers[t].xml_node
        kids == {tiers[t].children[i] : i \in Indices(tiers[t].children)}
    IN  IF value = tiers[t].ID
           THEN /\ call' = c /\ ret' = Returned(<<>>) /\ nops' = nops + 1
                /\ UNCHANGED docvars
           ELSE IF ~Truthy(value)
           THEN Rejected(c, "ValueError")
           ELSE /\ tiers' = [i \in Indices(tiers) |->
                                IF i = t THEN [tiers[i] EXCEPT !.ID = value]
                                ELSE IF i \in kids THEN [tiers[i] EXCEPT !.parent_ref = value]
                                ELSE tiers[i]]
                /\ tier_map' = reset_tier_map
                /\ xml_root' = [xml_root EXCEPT !.tiers =
                                  [n \in Indices(xml_root.tiers) |->
                                     IF n = x THEN [xml_root.tiers[n] EXCEPT !.TIER_ID = value]
                                     ELSE IF \E k \in kids : tiers[k].xml_node = n
                                     THEN [xml_root.tiers[n] EXCEPT !.PARENT_REF = value]
                                     ELSE xml_root.tiers[n]]]
                /\ call' = c /\ ret' = Returned(<<>>) /\ nops' = nops + 1
                /\ UNCHANGED <<time_order, ann_map, linguistic_types, vocabs, cve, author>>

\* Tier.participant setter
SetParticipant(t, value) ==
    /\ tiers' = [tiers EXCEPT ![t].participant = value]
    /\ xml_root' = [xml_root EXCEPT !.tiers[tiers[t].xml_node].PARTICIPANT = value]
    /\ call' = [Call("Tier.participant") EXCEPT !.tier = t, !.value = value]
    /\ ret' = Returned(<<>>)
    /\ nops' = nops + 1
    /\ UNCHANGED <<time_order, tier_map, ann_map, linguistic_types, vocabs, cve, author>>

\* Annotation.value setter (also Annotation.text), on annotation a of tier t
SetAnnotationValue(t, a, value) ==
    /\ tiers' = [tiers EXCEPT ![t].annotations[a].value = value]
    /\ xml_root' = [xml_root EXCEPT !.tiers[tiers[t].xml_node].anns[a].text = value]
    /\ call' = [Call("Annotation.value") EXCEPT !.tier = t, !.ann = a, !.value = value]
    /\ ret' = Returned(<<>>)
    /\ nops' = nops + 1
    /\ UNCHANGED <<time_order, tier_map, ann_map, linguistic_types, vocabs, cve, author>>

\* TimeSlot.value setter: the object only, the TIME_SLOT element is not updated
SetTimeSlotValue(id, value) ==
    /\ time_order' = [time_order EXCEPT ![id] = value]
    /\ call' = [Call("TimeSlot.value") EXCEPT !.ann = id, !.from_ts = value]
    /\ ret' = Returned(<<>>)
    /\ nops' = nops + 1
    /\ UNCHANGED <<tiers, tier_map, ann_map, linguistic_types, vocabs, cve, author, xml_root>>

\* Doc.author setter
SetAuthor(value) ==
    /\ author' = value
    /\ xml_root' = [xml_root EXCEPT !.AUTHOR = value]
    /\ call' = [Call("Doc.author") EXCEPT !.value = value]
    /\ ret' = Returned(<<>>)
    /\ nops' = nops + 1
    /\ UNCHANGED <<time_order, tiers, tier_map, ann_map, linguistic_types, vocabs, cve>>


-----------------------------------------------------------------------------
(* Document-level creation *)

\* a new_tier that takes any tier under any parent, or under none
parent_mismatch_ignored(constraints, parent_id) == FALSE

\* Doc.new_tier: a type with a constraint requires a parent tier, a type
\* without one must be root level
parent_mismatch(constraints, parent_id) ==
    \/ constraints # None /\ parent_id = None
    \/ parent_id # None /\ ~Truthy(constraints)

\* Doc.new_tier
new_tier(tier_id, type_id, parent_id, participant) ==
    LET c == [Call("new_tier") EXCEPT !.tier_id = tier_id, !.type_id = type_id,
                                      !.parent_id = parent_id, !.value = participant]
        lt == get_linguistic_type(linguistic_types, type_id)
        tm == tier_map_of(tier_map, tiers)
        cached == [valid |-> TRUE, map |-> tm]
        tier_node == TierNode(tier_id, type_id,
                              IF Truthy(participant) THEN participant ELSE None,
                              IF Truthy(parent_id) THEN parent_id ELSE None,
                              <<>>)
        x == Len(xml_root.tiers) + 1
        tier_obj == Tier(tier_node, x)
        inserted == [xml_root EXCEPT !.tiers = Append(xml_root.tiers, tier_node)]
        n == Len(tiers) + 1
        added == Append(tiers, tier_obj)
        tm2 == [id \in DOMAIN tm \cup {tier_id} |-> IF id = tier_id THEN n ELSE tm[id]]
    IN  IF tier_id = None THEN Rejected(c, "ValueError")
           ELSE IF lt = 0 THEN Rejected(c, "ValueError")
           ELSE IF parent_id # None /\ parent_id \notin DOMAIN tm
           THEN \* the lookup has rebuilt the tier map
                /\ tier_map' = cached
                /\ call' = c /\ ret' = Raised("ValueError") /\ nops' = nops + 1
                /\ UNCHANGED <<time_order, tiers, ann_map, linguistic_types, vocabs,
                               cve, author, xml_root>>
           ELSE IF parent_mismatch(linguistic_types[lt].constraints, parent_id)
           THEN /\ tier_map' = IF parent_id = None THEN tier_map ELSE cached
                /\ call' = c /\ ret' = Raised("ValueError") /\ nops' = nops + 1
                /\ UNCHANGED <<time_order, tiers, ann_map, linguistic_types, vocabs,
                               cve, author, xml_root>>
           ELSE IF tier_id \in DOMAIN tm
           THEN \* _add_tier_xml raises: the TIER element is already in the tree
                /\ xml_root' = inserted
                /\ tier_map' = cached
                /\ call' = c /\ ret' = Raised("ValueError") /\ nops' = nops + 1
                /\ UNCHANGED <<time_order, tiers, ann_map, linguistic_types, vocabs,
                               cve, author>>
           ELSE /\ xml_root' = inserted
                /\ tiers' = IF parent_id = None THEN added
                            ELSE [added EXCEPT ![tm2[tier_obj.parent_ref]].children =
                                                   Append(@, n)]
                /\ tier_map' = [valid |-> TRUE, map |-> tm2]
                /\ call' = c /\ ret' = Returned(<<>>) /\ nops' = nops + 1
                /\ UNCHANGED <<time_order, ann_map, linguistic_types, vocabs, cve, author>>

\* the stereotypes Doc.new_linguistic_type accepts
SupportedStereotypes == {None, TIME_SUB, INCL, SYM_SUB, SYM_ASSOC}

\* Doc.new_linguistic_type
new_linguistic_type(type_id, constraints, vocab_id) ==
    LET c == [Call("new_linguistic_type") EXCEPT !.type_id = type_id,
                                                 !.value = constraints,
                                                 !.parent_id = vocab_id]
        new_lt == TypeNode(type_id, constraints, vocab_id)
        lt_obj == LinguisticType(new_lt)
    IN  IF constraints \notin SupportedStereotypes THEN Rejected(c, "ValueError")
           ELSE IF get_linguistic_type(linguistic_types, type_id) # 0
           THEN Rejected(c, "ValueError")
           ELSE IF xml_root.types = <<>>
           THEN Rejected(c, "TypeError")   \* _find_last_element_index is None
           ELSE /\ xml_root' = [xml_root EXCEPT !.types = Append(@, new_lt)]
                /\ linguistic_types' =
                      Append(linguistic_types,
                             IF Truthy(vocab_id)
                             THEN [lt_obj EXCEPT !.vocab = get_vocab(vocabs, vocab_id)]
                             ELSE lt_obj)
                /\ call' = c /\ ret' = Returned(<<>>) /\ nops' = nops + 1
                /\ UNCHANGED <<time_order, tiers, tier_map, ann_map, vocabs, cve, author>>

\* Doc.new_vocab
new_vocab(vocab_id) ==
    LET c == [Call("new_vocab") EXCEPT !.value = vocab_id]
        vc_node == VocabNode(vocab_id, <<>>)
    IN  IF ~Truthy(vocab_id) THEN Rejected(c, "ValueError")
           ELSE IF get_vocab(vocabs, vocab_id) # 0 THEN Rejected(c, "ValueError")
           ELSE /\ vocabs' = Append(vocabs, ControlledVocab(vc_node))
                /\ xml_root' = [xml_root EXCEPT !.vocabs = Append(@, vc_node)]
                /\ call' = c /\ ret' = Returned(<<>>) /\ nops' = nops + 1
                /\ UNCHANGED <<time_order, tiers, tier_map, ann_map, linguistic_types,
                               cve, author>>


-----------------------------------------------------------------------------
(* Controlled vocabulary editing.  v is the place of the vocabulary in       *)
(* Doc.__vocabs (and of its element in the tree); entries are named by the   *)
(* identity of their CVEntry object, 0 standing for None.                    *)

Put(f, k, x) == [i \in DOMAIN f \cup {k} |-> IF i = k THEN x ELSE f[i]]
Pop(f, k) == [i \in DOMAIN f \ {k} |-> f[i]]

\* the place (1-based) of entry object e in a list of entry nodes, 0 if absent
NodeIndex(nodes, e) ==
    IF \E i \in Indices(nodes) : nodes[i].node = e
    THEN Min({i \in Indices(nodes) : nodes[i].node = e})
    ELSE 0

\* uuid.uuid4(): an ID no entry has
uuid4 == Max({cve[e].ID : e \in DOMAIN cve} \cup {0}) + 1

\* _add_child without its two index assignments
add_child_unindexed(vocab, child, entry, prev_entry, next_entry) ==
    [vocab EXCEPT
       !.entries = IF prev_entry # 0
                   THEN InsertAt(@, IndexOf(@, prev_entry), child)
                   ELSE IF next_entry # 0
                   THEN InsertAt(@, IndexOf(@, next_entry) - 1, child)
                   ELSE Append(@, child)]

\* ControlledVocab._add_child
add_child(vocab, child, entry, prev_entry, next_entry) ==
    [vocab EXCEPT
       !.entries = IF prev_entry # 0
                   THEN InsertAt(@, IndexOf(@, prev_entry), child)
                   ELSE IF next_entry # 0
                   THEN InsertAt(@, IndexOf(@, next_entry) - 1, child)
                   ELSE Append(@, child),
       !.entries_map = Put(@, entry.ID, child),
       !.values_map = Put(@, entry.value, child)]

\* ControlledVocab.new_entry; ID = NoID stands for None, value "" for blank
new_entry(v, ID, value, prev_entry, next_entry) ==
    LET c == [Call("new_entry") EXCEPT !.tier = v, !.ann = ID, !.value = value,
                                       !.from_ts = prev_entry, !.to_ts = next_entry]
        nodes == xml_root.vocabs[v].entries
        id == IF ID = NoID THEN uuid4 ELSE ID
        child == Max(DOMAIN cve \cup {0}) + 1
        entry_node == EntryNode(child, id, value)
        at == IF prev_entry # 0 THEN NodeIndex(nodes, prev_entry)
              ELSE IF next_entry # 0 THEN NodeIndex(nodes, next_entry) - 1
              ELSE Len(nodes)
        missing == \/ prev_entry # 0 /\ NodeIndex(nodes, prev_entry) = 0
                   \/ prev_entry = 0 /\ next_entry # 0 /\ NodeIndex(nodes, next_entry) = 0
    IN  IF ~Truthy(value) THEN Rejected(c, "ValueError")
           ELSE IF value \in DOMAIN vocabs[v].values_map THEN Rejected(c, "ValueError")
           ELSE IF ID # NoID /\ ID \in DOMAIN vocabs[v].entries_map
           THEN Rejected(c, "ValueError")
           ELSE IF missing THEN Rejected(c, "ValueError")  \* list.index raises
           ELSE /\ xml_root' = [xml_root EXCEPT !.vocabs[v].entries =
                                                    InsertAt(@, at, entry_node)]
                /\ cve' = Put(cve, child, CVEntry(entry_node))
                /\ vocabs' = [vocabs EXCEPT ![v] =
                                 add_child(@, child, CVEntry(entry_node),
                                           prev_entry, next_entry)]
                /\ call' = c /\ ret' = Returned(<<child>>) /\ nops' = nops + 1
                /\ UNCHANGED <<time_order, tiers, tier_map, ann_map, linguistic_types,
                               author>>

\* ControlledVocab.remove
remove(v, child) ==
    LET c == [Call("remove") EXCEPT !.tier = v, !.ann = child]
        nodes == xml_root.vocabs[v].entries
        vocab == vocabs[v]
    IN  IF NodeIndex(nodes, child) = 0
           THEN Rejected(c, "ValueError")  \* Element.remove raises
           ELSE /\ xml_root' = [xml_root EXCEPT !.vocabs[v].entries =
                                                    RemoveAt(@, NodeIndex(nodes, child))]
                /\ vocabs' = [vocabs EXCEPT ![v] =
                     [vocab EXCEPT
                        !.entries = IF \E i \in Indices(@) : @[i] = child
                                    THEN RemoveAt(@, IndexOf(@, child)) ELSE @,
                        !.entries_map = IF cve[child].ID \in DOMAIN @
                                        THEN Pop(@, cve[child].ID) ELSE @,
                        !.values_map = IF cve[child].value \in DOMAIN @
                                       THEN Pop(@, cve[child].value) ELSE @]]
                /\ call' = c /\ ret' = Returned(<<>>) /\ nops' = nops + 1
                /\ UNCHANGED <<time_order, tiers, tier_map, ann_map, linguistic_types,
                               cve, author>>

\* CVEntry.value setter: the object and its CVE_VALUE element; the
\* vocabulary's value index is not told
SetEntryValue(child, value) ==
    LET c == [Call("CVEntry.value") EXCEPT !.ann = child, !.value = value]
    IN  IF ~Truthy(value) THEN Rejected(c, "ValueError")
           ELSE /\ cve' = [cve EXCEPT ![child].value = value]
                /\ xml_root' = [xml_root EXCEPT !.vocabs =
                      [n \in Indices(xml_root.vocabs) |->
                         [xml_root.vocabs[n] EXCEPT !.entries =
                            [i \in Indices(xml_root.vocabs[n].entries) |->
                               IF xml_root.vocabs[n].entries[i].node = child
                               THEN [xml_root.vocabs[n].entries[i] EXCEPT !.text = value]
                               ELSE xml_root.vocabs[n].entries[i]]]]]
                /\ call' = c /\ ret' = Returned(<<>>) /\ nops' = nops + 1
                /\ UNCHANGED <<time_order, tiers, tier_map, ann_map, linguistic_types,
                               vocabs, author>>


-----------------------------------------------------------------------------
(* TimeSlot ordering against a number x; v is the slot's value *)

\* TimeSlot.__lt__
ts_lt(v, x) == IF v = NoValue THEN TRUE ELSE v < x
\* TimeSlot.__gt__
ts_gt(v, x) == IF v = NoValue THEN FALSE ELSE v > x
\* TimeSlot.__eq__
ts_eq(v, x) == v # NoValue /\ v = x
\* a variant of __le__ that is strict (a point on the referent's end passes)
ts_le_strict(v, x) == ts_lt(v, x)
\* TimeSlot.__le__
ts_le(v, x) == ts_lt(v, x) \/ ts_eq(v, x)
\* TimeSlot.__ge__
ts_ge(v, x) == ts_gt(v, x) \/ ts_eq(v, x)

(* TimeSlot ordering against any operand: None, another TimeSlot, a number *)

NoOperand == [kind |-> None, value |-> NoValue]
SlotOperand(v) == [kind |-> "TimeSlot", value |-> v]
NumberOperand(x) == [kind |-> "int", value |-> x]

\* other is None or (isinstance(other, TimeSlot) and other.value is None)
nothing_to_compare(other) ==
    other.kind = None \/ (other.kind = "TimeSlot" /\ other.value = NoValue)

\* TimeSlot.__lt__
TimeSlot_lt(v, other) ==
    IF nothing_to_compare(other) THEN FALSE ELSE ts_lt(v, other.value)

\* TimeSlot.__gt__
TimeSlot_gt(v, other) ==
    IF nothing_to_compare(other) THEN TRUE ELSE ts_gt(v, other.value)

\* TimeSlot.__eq__
TimeSlot_eq(v, other) ==
    IF other.kind = None THEN FALSE
    ELSE IF other.kind = "TimeSlot" THEN other.value = v
    ELSE ts_eq(v, other.value)

\* TimeSlot.__le__
TimeSlot_le(v, other) == TimeSlot_lt(v, other) \/ TimeSlot_eq(v, other)

\* TimeSlot.__ge__
TimeSlot_ge(v, other) == TimeSlot_gt(v, other) \/ TimeSlot_eq(v, other)

\* slot < other, slot > other, ... for the slot with the given ID; other is
\* None, the slot other_id of the document, or the number x
compare(op, id, kind, other_id, x) ==
    LET other == IF kind = None THEN NoOperand
                 ELSE IF kind = "TimeSlot" THEN SlotOperand(time_order[other_id])
                 ELSE NumberOperand(x)
        v == time_order[id]
        result == IF op = "__lt__" THEN TimeSlot_lt(v, other)
                  ELSE IF op = "__gt__" THEN TimeSlot_gt(v, other)
                  ELSE IF op = "__eq__" THEN TimeSlot_eq(v, other)
                  ELSE IF op = "__le__" THEN TimeSlot_le(v, other)
                  ELSE TimeSlot_ge(v, other)
    IN  /\ call' = [Call(op) EXCEPT !.ann = id, !.type_id = kind,
                                    !.ann_ref_id = IF kind = "TimeSlot" THEN other_id
                                                   ELSE NoID,
                                    !.from_ts = IF kind = "int" THEN x ELSE NoValue]
        /\ ret' = [status |-> "ok", anns |-> <<>>, value |-> result]
        /\ nops' = nops + 1
        /\ UNCHANGED docvars

-----------------------------------------------------------------------------
(* ID allocation *)

\* the probe shared by new_timeslot and new_annotation_id: the first number
\* from len(registry) + 1 on that is not a key of the registry
Probe(keys) ==
    LET seed == Cardinality(keys) + 1
    IN  Min({n \in seed..(seed + Cardinality(keys)) : n \notin keys})

\* a variant of new_annotation_id without the probe: len(registry) + 1 as is
new_annotation_id_unprobed(am) == Cardinality(DOMAIN am) + 1

\* Doc.new_annotation_id
new_annotation_id(am) == Probe(DOMAIN am)

\* a new_timeslot that hands out a registered slot of the same value, if any
new_timeslot_shared(d, value) ==
    LET same == {id \in DOMAIN d.time_order : d.time_order[id] = value}
        ts_id == Probe(DOMAIN d.time_order)
        ts_node == TimeSlotNode(ts_id, value)
    IN  IF same # {}
        THEN [ID |-> Min(same), time_order |-> d.time_order, xml_root |-> d.xml_root]
        ELSE [ID |-> ts_id,
              time_order |-> Put(d.time_order, ts_id, TimeSlot(ts_node)),
              xml_root |-> [d.xml_root EXCEPT !.time = Append(@, ts_node)]]

\* Doc.new_timeslot, on the pair d = [time_order, xml_root]: the slot is
\* appended to TIME_ORDER and registered
new_timeslot(d, value) ==
    LET ts_id == Probe(DOMAIN d.time_order)
        ts_node == TimeSlotNode(ts_id, value)
    IN  [ID |-> ts_id,
         time_order |-> Put(d.time_order, ts_id, TimeSlot(ts_node)),
         xml_root |-> [d.xml_root EXCEPT !.time = Append(@, ts_node)]]

\* new_timeslot for each of the points in turn; ids collects the new IDs
RECURSIVE new_timeslots(_, _)
new_timeslots(d, points) ==
    IF points = <<>> THEN [time_order |-> d.time_order, xml_root |-> d.xml_root,
                           ids |-> <<>>]
    ELSE LET one == new_timeslot(d, Head(points))
             rest == new_timeslots(one, Tail(points))
         IN  [rest EXCEPT !.ids = <<one.ID>> \o @]

-----------------------------------------------------------------------------
(* Tier.new_annotation *)

\* Tier.vocab: the vocabulary of the tier's type, 0 for None
tier_vocab(t) == linguistic_types[get_linguistic_type(linguistic_types,
                                                      tiers[t].type_ref_id)].vocab

\* a stereotype under which the last branch of new_annotation, the one of
\* Symbolic_Association, takes every stereotype the earlier ones left
stereotype_or_association(t) ==
    LET st == linguistic_types[get_linguistic_type(linguistic_types,
                                  tiers[t].type_ref_id)].constraints
    IN  IF st \in {None, INCL, TIME_SUB, SYM_SUB} THEN st ELSE SYM_ASSOC

\* Tier.stereotype
stereotype(t) == linguistic_types[get_linguistic_type(linguistic_types,
                                                      tiers[t].type_ref_id)].constraints

\* ControlledVocab.has_value
has_value(vocab, key) == key \in DOMAIN vocab.values_map

\* ControlledVocab.by_value
by_value(vocab, key) == vocab.values_map[key]

\* Tier._validate_value: whether it raises
validate_value_ok(t, value) ==
    tier_vocab(t) # 0 => has_value(vocabs[tier_vocab(t)], value)

\* Tier._validate_value: the ID of the matching entry, NoID without vocabulary
validate_value(t, value) ==
    IF tier_vocab(t) # 0 THEN cve[by_value(vocabs[tier_vocab(t)], value)].ID ELSE NoID

\* the text of an ANNOTATION_VALUE element set to value
Text(value) == IF value = None THEN "" ELSE value

\* append_annotation without the call of Doc._register_ann
append_annotation_unregistered(d, t, node, resolve) ==
    LET id == new_annotation_id(d.ann_map)
        ann_node == [node EXCEPT !.ANNOTATION_ID = id]
        made == add_annotation_xml(ann_node)
        ann_obj == IF resolve THEN [made EXCEPT !.ref = made.ref_id] ELSE made
    IN  [tiers |-> [d.tiers EXCEPT ![t].annotations = Append(@, ann_obj)],
         ann_map |-> d.ann_map,
         xml_root |-> [d.xml_root EXCEPT !.tiers[d.tiers[t].xml_node].anns =
                                            Append(@, ann_node)],
         ids |-> Append(d.ids, id)]

\* One annotation more on tier t of d = [tiers, ann_map, xml_root, ids]: the
\* element gets a fresh ANNOTATION_ID, is appended to the TIER element, turned
\* into an object on the tier's list (resolved when asked) and registered.
append_annotation(d, t, node, resolve) ==
    LET id == new_annotation_id(d.ann_map)
        ann_node == [node EXCEPT !.ANNOTATION_ID = id]
        made == add_annotation_xml(ann_node)
        ann_obj == IF resolve THEN [made EXCEPT !.ref = made.ref_id] ELSE made
        place == <<t, Len(d.tiers[t].annotations) + 1>>
    IN  [tiers |-> [d.tiers EXCEPT ![t].annotations = Append(@, ann_obj)],
         ann_map |-> Put(d.ann_map, id, place),
         xml_root |-> [d.xml_root EXCEPT !.tiers[d.tiers[t].xml_node].anns =
                                            Append(@, ann_node)],
         ids |-> Append(d.ids, id)]

\* the Symbolic_Subdivision loop: one reference annotation per value, each
\* pointing back at the one before it (last_id)
RECURSIVE symbolic_subdivision(_, _, _, _, _)
symbolic_subdivision(d, t, values, ref, last_id) ==
    IF values = <<>> THEN d
    ELSE LET node == RefNode(NoID, ref, last_id, validate_value(t, Head(values)),
                             Text(Head(values)))
             one == append_annotation(d, t, node, TRUE)
         IN  symbolic_subdivision(one, t, Tail(values), ref, one.ids[Len(one.ids)])

\* the Time_Subdivision loop: one alignable annotation per value over the
\* consecutive pairs of ts_objs
RECURSIVE time_subdivision(_, _, _, _)
time_subdivision(d, t, values, ts_objs) ==
    IF values = <<>> THEN d
    ELSE LET node == AlignableNode(NoID, ts_objs[1], ts_objs[2],
                                   validate_value(t, Head(values)), Text(Head(values)))
         IN  time_subdivision(append_annotation(d, t, node, FALSE), t,
                              Tail(values), Tail(ts_objs))


\* the precondition checks without the one on spans given to tiers that are
\* not time-alignable
input_shape_error_span_ignored(st, from, to, ann_ref_id, am) ==
    \/ st \in {None, INCL} /\ (from = NoValue \/ to = NoValue)
    \/ ann_ref_id # NoID /\ ann_ref_id \notin DOMAIN am
    \/ st # None /\ ann_ref_id = NoID

\* the precondition checks of Tier.new_annotation, each raising ValueError:
\* a missing from or to on a None / Included_In tier, a from or to on any
\* other tier, an unknown referent ID, no referent on a constrained tier
input_shape_error(st, from, to, ann_ref_id, am) ==
    \/ st \in {None, INCL} /\ (from = NoValue \/ to = NoValue)
    \/ st \notin {None, INCL} /\ (from # NoValue \/ to # NoValue)
    \/ ann_ref_id # NoID /\ ann_ref_id \notin DOMAIN am
    \/ st # None /\ ann_ref_id = NoID

\* the tier's annotations whose resolved target is ref, in tier order
children_of(t, ref) ==
    LET anns == tiers[t].annotations
    IN  sorted_set({i \in Indices(anns) : anns[i].ref = ref})

\* Tier.new_annotation on tier t.  from_ts / to_ts: NoValue for None;
\* ann_ref_id: NoID for None; values: <<>> for None; timeslots: a list when
\* timeslots_given, None otherwise.
new_annotation(t, value, from, to, ann_ref_id, values, timeslots, timeslots_given) ==
    LET c == [Call("new_annotation") EXCEPT
                 !.tier = t, !.value = value, !.from_ts = from, !.to_ts = to,
                 !.ann_ref_id = ann_ref_id, !.values = values,
                 !.timeslots = timeslots, !.timeslots_given = timeslots_given]
        st == stereotype(t)
        ann_ref == annotation(tiers, ann_map, ann_ref_id)
        rf == from_ts(tiers, ann_map, ann_ref)
        rt == to_ts(tiers, ann_map, ann_ref)
        vs == (IF value # None THEN <<value>> ELSE <<>>) \o values
        anns == tiers[t].annotations
        d0 == [tiers |-> tiers, ann_map |-> ann_map, xml_root |-> xml_root, ids |-> <<>>]
        Applied(tso, d) ==
            /\ time_order' = tso
            /\ tiers' = d.tiers
            /\ ann_map' = d.ann_map
            /\ xml_root' = d.xml_root
            /\ call' = c /\ ret' = Returned(d.ids) /\ nops' = nops + 1
            /\ UNCHANGED <<tier_map, linguistic_types, vocabs, cve, author>>
        \* None / Included_In: two new slots, one alignable annotation
        s1 == new_timeslot([time_order |-> time_order, xml_root |-> xml_root], from)
        s2 == new_timeslot(s1, to)
        plain == append_annotation(
                    [d0 EXCEPT !.xml_root = s2.xml_root], t,
                    AlignableNode(NoID, s1.ID, s2.ID, validate_value(t, value), Text(value)),
                    FALSE)
        \* Symbolic_Subdivision: the tail of the referent's chain
        kids == children_of(t, ann_ref_id)
        last_id == IF kids = <<>> THEN NoID ELSE anns[kids[Len(kids)]].ID
        \* Time_Subdivision: the boundaries
        slots == new_timeslots([time_order |-> time_order, xml_root |-> xml_root],
                               IF Len(vs) > 1 THEN sorted(timeslots) ELSE <<>>)
        ts_objs == <<rf>> \o slots.ids \o <<rt>>
        \* Symbolic_Association: one reference annotation, left unresolved
        assoc == append_annotation(
                    d0, t,
                    RefNode(NoID, ann_ref_id, NoID, validate_value(t, value), Text(value)),
                    FALSE)
    IN  IF input_shape_error(st, from, to, ann_ref_id, ann_map)
           THEN Rejected(c, "ValueError")
           ELSE IF ~Truthy(st) \/ st = INCL
           THEN IF st = INCL /\ (rf = NoID \/ rt = NoID)
                THEN Rejected(c, "TypeError")   \* None > float
                ELSE IF st = INCL /\ (\/ ts_gt(time_order[rf], from)
                                      \/ ts_lt(time_order[rt], to))
                THEN Rejected(c, "ValueError")
                ELSE IF ~validate_value_ok(t, value)
                THEN Rejected(c, "ValueError")
                ELSE Applied(s2.time_order, plain)
           ELSE IF st \in {TIME_SUB, SYM_SUB}
           THEN IF \E i \in Indices(vs) : ~validate_value_ok(t, vs[i])
                THEN Rejected(c, "ValueError")
                ELSE IF st = SYM_SUB
                THEN IF \E i \in Indices(anns) :
                           \/ anns[i].ref = NoID           \* None.ID
                           \/ /\ anns[i].ref = ann_ref_id  \* str.ID
                              /\ anns[i].previous # NoID
                     THEN Rejected(c, "AttributeError")
                     ELSE Applied(time_order,
                                  symbolic_subdivision(d0, t, vs, ann_ref.ID, last_id))
                ELSE IF Len(vs) > 1 /\ (\/ ~timeslots_given
                                        \/ timeslots = <<>>
                                        \/ Len(timeslots) # Len(vs) - 1)
                THEN Rejected(c, "ValueError")
                ELSE IF ~timeslots_given
                THEN Rejected(c, "TypeError")   \* for t in None
                ELSE IF timeslots # <<>> /\ (rf = NoID \/ rt = NoID)
                THEN \* t is None raises ValueError, t <= None raises TypeError
                     Rejected(c, IF timeslots[1] = NoValue THEN "ValueError"
                                 ELSE "TypeError")
                ELSE IF \E i \in Indices(timeslots) :
                           \/ timeslots[i] = NoValue                \* t is None
                           \/ ts_ge(time_order[rf], timeslots[i])   \* t <= from_ts
                           \/ ts_le(time_order[rt], timeslots[i])   \* t >= to_ts
                THEN Rejected(c, "ValueError")
                ELSE IF rf = NoID \/ rt = NoID
                THEN Rejected(c, "AttributeError")   \* None.ID
                ELSE Applied(slots.time_order,
                             time_subdivision([d0 EXCEPT !.xml_root = slots.xml_root],
                                              t, vs, ts_objs))
           ELSE IF st = SYM_ASSOC
           THEN IF ~validate_value_ok(t, value)
                THEN Rejected(c, "ValueError")
                ELSE Applied(time_order, assoc)
           ELSE Rejected(c, "NotImplementedError")


-----------------------------------------------------------------------------
(* Input documents *)

\* A transcript with one tier per stereotype under the utterance tier "U".
\* Annotation a2 of "U" spans ts1 (1 ms) .. ts2 (5 ms); the type of "L" is
\* bound to the vocabulary "cv" = {en, jp}.
StereotypeDoc ==
    [AUTHOR |-> "",
     time   |-> <<TimeSlotNode(1, 1), TimeSlotNode(2, 5)>>,
     tiers  |-> <<TierNode("U", "lt", "P", None,
                           <<AlignableNode(2, 1, 2, NoID, "hi")>>),
                  TierNode("W", "ts", "P", "U", <<>>),
                  TierNode("K", "ss", "P", "U", <<>>),
                  TierNode("L", "sa", "P", "U", <<>>),
                  TierNode("I", "ii", "P", "U", <<>>)>>,
     types  |-> <<TypeNode("lt", None, None),
                  TypeNode("ts", TIME_SUB, None),
                  TypeNode("ss", SYM_SUB, None),
                  TypeNode("sa", SYM_ASSOC, "cv"),
                  TypeNode("ii", INCL, None)>>,
     vocabs |-> <<VocabNode("cv", <<EntryNode(1, 1, "en"), EntryNode(2, 2, "jp")>>)>>]


\* A transcript with a token chain: "K" subdivides annotation a1 of "U" into
\* a2 <- a3; "M" is a second root tier.
TierDoc ==
    [AUTHOR |-> "ann",
     time   |-> <<TimeSlotNode(1, 1), TimeSlotNode(2, 5)>>,
     tiers  |-> <<TierNode("U", "lt", "P", None,
                           <<AlignableNode(1, 1, 2, NoID, "hi")>>),
                  TierNode("M", "lt", "", None, <<>>),
                  TierNode("K", "ss", "P", "U",
                           <<RefNode(2, 1, NoID, NoID, "h"),
                             RefNode(3, 1, 2, NoID, "i")>>)>>,
     types  |-> <<TypeNode("lt", None, None), TypeNode("ss", SYM_SUB, None)>>,
     vocabs |-> <<VocabNode("cv", <<EntryNode(1, 1, "en")>>)>>]

\* A transcript whose tier "L" is bound to the vocabulary "cv" = {en, jp} and
\* holds one annotation, "en", on annotation a2 of "U".
VocabDoc ==
    [AUTHOR |-> "",
     time   |-> <<TimeSlotNode(1, 1), TimeSlotNode(2, 5)>>,
     tiers  |-> <<TierNode("U", "lt", "P", None,
                           <<AlignableNode(2, 1, 2, NoID, "hi")>>),
                  TierNode("L", "sa", "P", "U",
                           <<RefNode(3, 2, NoID, 1, "en")>>)>>,
     types  |-> <<TypeNode("lt", None, None), TypeNode("sa", SYM_ASSOC, "cv")>>,
     vocabs |-> <<VocabNode("cv", <<EntryNode(1, 1, "en"), EntryNode(2, 2, "jp")>>)>>]

\* A transcript whose tier "X" has a type with a constraint that is none of
\* the five stereotypes; "U" is an unconstrained tier with annotation a2
UnsupportedDoc ==
    [AUTHOR |-> "",
     time   |-> <<TimeSlotNode(1, 1), TimeSlotNode(2, 5)>>,
     tiers  |-> <<TierNode("U", "lt", "P", None,
                           <<AlignableNode(2, 1, 2, NoID, "hi")>>),
                  TierNode("X", "xx", "P", "U", <<>>)>>,
     types  |-> <<TypeNode("lt", None, None),
                  TypeNode("xx", "Multiple_Refs", None)>>,
     vocabs |-> <<>>]

\* A transcript with nothing but one empty root tier: no time slot, no
\* annotation, no vocabulary
BlankDoc ==
    [AUTHOR |-> "",
     time   |-> <<>>,
     tiers  |-> <<TierNode("default", "default-lt", "", None, <<>>)>>,
     types  |-> <<TypeNode("default-lt", None, None)>>,
     vocabs |-> <<>>]

InputDocs == {StereotypeDoc, TierDoc, VocabDoc, BlankDoc}

-----------------------------------------------------------------------------
(* Spec: every operation of a Doc, on each input document *)

Init == \E x \in InputDocs : Loaded(x)

Requests ==
    {<<"x", 2, 4, NoID, <<>>, <<>>, FALSE>>,
     <<"x", 2, 4, 2, <<>>, <<>>, FALSE>>,
     <<"en", NoValue, NoValue, 2, <<>>, <<>>, FALSE>>,
     <<"x", NoValue, NoValue, 2, <<"y">>, <<3>>, TRUE>>,
     <<"x", NoValue, NoValue, 1, <<"y">>, <<>>, FALSE>>}

Next ==
    \/ /\ nops < MaxOps
       /\ \E t \in Indices(tiers) : \E v \in {"", "U", "N"} : SetTierID(t, v)
    \/ /\ nops < MaxOps
       /\ \E t \in Indices(tiers) : SetParticipant(t, "Q")
    \/ /\ nops < MaxOps
       /\ \E p \in Places(tiers) : SetAnnotationValue(p[1], p[2], "x")
    \/ /\ nops < MaxOps
       /\ \E id \in DOMAIN time_order : SetTimeSlotValue(id, 3)
    \/ /\ nops < MaxOps
       /\ SetAuthor("me")
    \/ /\ nops < MaxOps
       /\ \E id \in {None, "U", "N"} : \E ty \in {"lt", "ss", "zz"} :
             \E pa \in {None, "U", "Q"} : new_tier(id, ty, pa, None)
    \/ /\ nops < MaxOps
       /\ \E id \in {"lt", "nt"} : \E st \in {None, SYM_ASSOC, "Foo"} :
             \E cv \in {None, "cv"} : new_linguistic_type(id, st, cv)
    \/ /\ nops < MaxOps
       /\ \E id \in {"", "cv", "nv"} : new_vocab(id)
    \/ /\ nops < MaxOps
       /\ \E v \in Indices(vocabs) : \E id \in {NoID, 1} : \E val \in {"", "en", "fr"} :
             new_entry(v, id, val, 0, 0)
    \/ /\ nops < MaxOps
       /\ \E v \in Indices(vocabs) : \E e \in DOMAIN cve : remove(v, e)
    \/ /\ nops < MaxOps
       /\ \E e \in DOMAIN cve : \E val \in {"", "EN"} : SetEntryValue(e, val)
    \/ /\ nops < MaxOps
       /\ \E t \in Indices(tiers) : \E q \in Requests :
             new_annotation(t, q[1], q[2], q[3], q[4], q[5], q[6], q[7])

Spec == Init /\ [][Next]_vars

-----------------------------------------------------------------------------
(* SpecTiers: the tier registry of TierDoc *)

InitTiers == Loaded(TierDoc)

NextTiers ==
    \/ /\ nops < MaxTierOps
       /\ \E t \in Indices(tiers) : \E v \in {"", "U", "K", "N"} : SetTierID(t, v)
    \/ /\ nops < MaxTierOps
       /\ \E id \in {None, "U", "N", "O"} : \E ty \in {"lt", "ss", "zz"} :
             \E pa \in {None, "U", "N", "Q"} : new_tier(id, ty, pa, None)
    \/ /\ nops < MaxTierOps
       /\ \E id \in {"lt", "nt"} : \E st \in {None, INCL, "Foo"} :
             \E cv \in {None, "cv"} : new_linguistic_type(id, st, cv)
    \/ /\ nops < MaxTierOps
       /\ \E id \in {"", "cv", "nv"} : new_vocab(id)

SpecTiers == InitTiers /\ [][NextTiers]_vars

-----------------------------------------------------------------------------
(* SpecAnn: annotation creation on the tiers of StereotypeDoc *)

InitAnn == Loaded(StereotypeDoc)

\* requests with an explicit span, inside and outside a2's span [1, 5]
SpanRequests ==
    {<<"x", f, e, r, <<>>, <<>>, FALSE>> :
        f \in {0, 2, 6}, e \in {0, 4, 6}, r \in {NoID, 2}}

\* requests without a span: value, extra values, interior points
RefRequests ==
    {<<"en", NoValue, NoValue, 2, vs, pts[1], pts[2]>> :
        vs \in {<<>>, <<"jp">>, <<"jp", "en">>},
        pts \in {<<<<>>, FALSE>>, <<<<>>, TRUE>>, <<<<2>>, TRUE>>,
                 <<<<4, 2>>, TRUE>>, <<<<2, 5>>, TRUE>>}}
    \cup {<<"x", NoValue, NoValue, 2, <<>>, <<>>, TRUE>>,
          <<"en", NoValue, NoValue, 9, <<>>, <<>>, TRUE>>,
          <<None, NoValue, NoValue, 2, <<"en">>, <<>>, TRUE>>,
          \* on an annotation created by an earlier call (a3)
          <<"en", NoValue, NoValue, 3, <<"jp">>, <<3>>, TRUE>>,
          <<"x", 2, 4, 3, <<>>, <<>>, FALSE>>,
          \* a missing point (None), a point on the referent's start
          <<"en", NoValue, NoValue, 2, <<"jp">>, <<NoValue>>, TRUE>>,
          <<"en", NoValue, NoValue, 2, <<"jp">>, <<1>>, TRUE>>,
          <<"en", NoValue, NoValue, 2, <<>>, <<6>>, TRUE>>,
          \* no referent, half a span
          <<"en", NoValue, NoValue, NoID, <<>>, <<>>, FALSE>>,
          <<"x", 2, NoValue, 2, <<>>, <<>>, FALSE>>,
          <<"x", NoValue, 4, 2, <<>>, <<>>, FALSE>>}

NextAnn ==
    \E t \in Indices(tiers) : \E q \in SpanRequests \cup RefRequests :
       /\ nops < MaxAnnOps
       /\ new_annotation(t, q[1], q[2], q[3], q[4], q[5], q[6], q[7])

SpecAnn == InitAnn /\ [][NextAnn]_vars

-----------------------------------------------------------------------------
(* SpecVocab: vocabulary editing on VocabDoc, and the tier bound to it *)

InitVocab == Loaded(VocabDoc)

NextVocab ==
    \/ /\ nops < MaxVocabOps
       /\ \E id \in {NoID, 1, 7} : \E val \in {"", "en", "fr"} :
             \E pn \in {<<0, 0>>, <<1, 0>>, <<0, 2>>} :
                new_entry(1, id, val, pn[1], pn[2])
    \/ /\ nops < MaxVocabOps
       /\ \E e \in DOMAIN cve : remove(1, e)
    \/ /\ nops < MaxVocabOps
       /\ \E e \in DOMAIN cve : \E val \in {"", "EN", "jp"} : SetEntryValue(e, val)
    \/ /\ nops < MaxVocabOps
       /\ \E a \in Indices(tiers[2].annotations) : \E val \in {"jp", "fr"} :
             SetAnnotationValue(2, a, val)
    \/ /\ nops < MaxVocabOps
       /\ \E val \in {"en", "EN", "fr"} :
             new_annotation(2, val, NoValue, NoValue, 2, <<>>, <<>>, FALSE)

SpecVocab == InitVocab /\ [][NextVocab]_vars

-----------------------------------------------------------------------------
(* SpecEntries: insertions into and removals from the vocabulary of
   VocabDoc, without in-place edits *)

InitEntries == Loaded(VocabDoc)

NextEntries ==
    \/ /\ nops < MaxEntryOps
       /\ \E id \in {NoID, 1} : \E val \in {"", "en", "fr"} :
             \E pn \in {<<0, 0>>, <<1, 0>>, <<0, 2>>, <<2, 0>>, <<0, 1>>} :
                new_entry(1, id, val, pn[1], pn[2])
    \/ /\ nops < MaxEntryOps
       /\ \E e \in DOMAIN cve : remove(1, e)

SpecEntries == InitEntries /\ [][NextEntries]_vars

-----------------------------------------------------------------------------
(* SpecOrder: comparisons of the time slots of StereotypeDoc, whose values
   are set and unset in between *)

InitOrder == Loaded(StereotypeDoc)

NextOrder ==
    \/ /\ nops < MaxOrderOps
       /\ \E id \in DOMAIN time_order : \E value \in {NoValue, 1, 3} :
             SetTimeSlotValue(id, value)
    \/ /\ nops < MaxOrderOps
       /\ \E op \in {"__lt__", "__gt__", "__eq__", "__le__", "__ge__"} :
             \E id, other_id \in DOMAIN time_order :
                \E kind \in {None, "TimeSlot", "int"} :
                   compare(op, id, kind, other_id, 3)

SpecOrder == InitOrder /\ [][NextOrder]_vars

-----------------------------------------------------------------------------
(* SpecUnsupported: annotation creation on the tiers of UnsupportedDoc *)

InitUnsupported == Loaded(UnsupportedDoc)

NextUnsupported ==
    \E t \in Indices(tiers) : \E q \in SpanRequests \cup RefRequests :
       /\ nops < MaxUnsupportedOps
       /\ new_annotation(t, q[1], q[2], q[3], q[4], q[5], q[6], q[7])

SpecUnsupported == InitUnsupported /\ [][NextUnsupported]_vars

-----------------------------------------------------------------------------
(* SpecParse: reading EAF texts, then writing them and reading them back *)

\* EAF texts: an utterance tier "U" with one alignable annotation, a tier
\* "L" of vocabulary-bound associations and a tier "K" of tokens a3 <- a4.
\* Among them are texts that do not parse: a dangling TIME_SLOT_REF2 (ts3),
\* an unknown PARENT_REF ("X"), a missing referent (a9).
EafText(a, v2, ref2, text, parent, target) ==
    [AUTHOR |-> a,
     time   |-> <<TimeSlotNode(1, 1), TimeSlotNode(2, v2)>>,
     tiers  |-> <<TierNode("U", "lt", "P", None,
                           <<AlignableNode(1, 1, ref2, NoID, text)>>),
                  TierNode("L", "sa", "", parent,
                           <<RefNode(2, target, NoID, 1, "en")>>),
                  TierNode("K", "ss", "P", "U",
                           <<RefNode(3, 1, NoID, NoID, "h"),
                             RefNode(4, 1, 3, NoID, "i")>>)>>,
     types  |-> <<TypeNode("lt", None, None), TypeNode("sa", SYM_ASSOC, "cv"),
                  TypeNode("ss", SYM_SUB, None)>>,
     vocabs |-> <<VocabNode("cv", <<EntryNode(1, 1, "en"), EntryNode(2, 2, "jp")>>)>>]

\* EafText with a second annotation on "L" that repeats the ID a2
RepeatedIDText(target) ==
    LET x == EafText("", 5, 2, "hi", "U", target)
    IN  [x EXCEPT !.tiers[2].anns = Append(@, RefNode(2, 1, NoID, 2, "jp"))]

\* EafText whose tier "K" names a linguistic type the document lacks
UnknownTypeText ==
    LET x == EafText("", 5, 2, "hi", "U", 1)
    IN  [x EXCEPT !.tiers[3].LINGUISTIC_TYPE_REF = "zz"]

\* EafText whose third tier repeats the ID "L" (in a document without the
\* vocabulary's tier type, too)
RepeatedTierText(type) ==
    LET x == EafText("", 5, 2, "hi", "U", 1)
    IN  [x EXCEPT !.tiers[3].TIER_ID = "L", !.tiers[3].LINGUISTIC_TYPE_REF = type]

EafTexts ==
    {EafText(a, v2, ref2, text, parent, target) :
        a \in {"", "ann"}, v2 \in {5, 1, NoValue}, ref2 \in {2, 3},
        text \in {"hi", ""}, parent \in {"U", "X"}, target \in {1, 4, 9}}
    \cup {RepeatedIDText(target) : target \in {1, 9}}
    \cup {UnknownTypeText}
    \cup {RepeatedTierText(type) : type \in {"ss", "zz"}}
    \cup InputDocs

\* an EAF text x not yet read: there is no Doc
Unread(x) ==
    /\ time_order = [id \in {} |-> NoValue]
    /\ tiers = <<>>
    /\ tier_map = reset_tier_map
    /\ ann_map = [id \in {} |-> <<0, 0>>]
    /\ linguistic_types = <<>>
    /\ vocabs = <<>>
    /\ cve = [n \in {} |-> 0]
    /\ author = None
    /\ xml_root = x
    /\ call = Call("open")
    /\ ret = Returned(<<>>)
    /\ nops = 0

\* the Doc d that parse_eaf_stream returned replaces the state
Parsed(d) ==
    /\ time_order' = d.time_order
    /\ tiers' = d.tiers
    /\ tier_map' = d.tier_map
    /\ ann_map' = d.ann_map
    /\ linguistic_types' = d.linguistic_types
    /\ vocabs' = d.vocabs
    /\ cve' = d.cve
    /\ author' = d.author

\* Doc.read_eaf: parse_eaf_stream on the text of the file
read_eaf ==
    LET d == parse_eaf_stream(xml_root)
    IN  /\ call.op = "open"
        /\ IF d.ok
           THEN /\ Parsed(d)
                /\ call' = Call("read_eaf") /\ ret' = Returned(<<>>)
                /\ UNCHANGED <<xml_root, nops>>
           ELSE /\ call' = Call("read_eaf") /\ ret' = Raised(d.error)
                /\ UNCHANGED <<docvars, nops>>

\* doc2 = parse_string(doc.to_xml_str()), as in test_write_elan; doc2
\* replaces doc
write_and_read ==
    LET text == to_xml_str(xml_root)
        d == parse_string(text)
    IN  /\ call.op \in {"read_eaf", "parse_string"}
        /\ ret.status = "ok"
        /\ nops < MaxCycles
        /\ IF d.ok
           THEN /\ Parsed(d)
                /\ xml_root' = text
                /\ call' = Call("parse_string") /\ ret' = Returned(<<>>)
                /\ nops' = nops + 1
           ELSE /\ call' = Call("parse_string") /\ ret' = Raised(d.error)
                /\ nops' = nops + 1
                /\ UNCHANGED docvars

InitParse == \E x \in EafTexts : Unread(x)

NextParse ==
    \/ read_eaf
    \/ write_and_read

SpecParse == InitParse /\ [][NextParse]_vars

-----------------------------------------------------------------------------
(* Properties *)

\* the flat row projection of the live Doc
LiveRows == to_csv_rows(time_order, tiers, ann_map)

\* the flat row projection of the Doc read back from the serialised output
ReadBackRows == to_csv_rows(Reparsed.time_order, Reparsed.tiers, Reparsed.ann_map)

\* the values the entries of vocabulary v hold
Members(v) == {cve[vocabs[v].entries[i]].value : i \in Indices(vocabs[v].entries)}

\* the values of a new_annotation request c: value, then values
RequestValues(c) == (IF c.value # None THEN <<c.value>> ELSE <<>>) \o c.values

\* no two annotations of ts share an ID, and am registers each under its ID
UniqueAnnotationIDs(ts, am) ==
    /\ \A p, q \in Places(ts) :
          ts[p[1]].annotations[p[2]].ID = ts[q[1]].annotations[q[2]].ID => p = q
    /\ \A p \in Places(ts) :
          /\ ts[p[1]].annotations[p[2]].ID \in DOMAIN am
          /\ am[ts[p[1]].annotations[p[2]].ID] = p

\* how often x occurs in the sequence s
Count(s, x) == Cardinality({i \in Indices(s) : s[i] = x})

SerializationReflectsLiveState ==
    /\ Reparsed.ok
    /\ ReadBackRows = LiveRows

\* C3: renaming a tier from x to a non-empty y leaves the tier registered
\* under y and no longer under x, and every child tier that pointed at x
\* points at y, its parent resolving to the renamed tier.
RenamePropagates ==
    [][(/\ call'.op = "Tier.ID"
        /\ ret'.status = "ok"
        /\ call'.tier_id # tiers[call'.tier].ID) =>
          LET t == call'.tier
              x == tiers[t].ID
              y == call'.tier_id
              tm == tier_map_of(tier_map', tiers')
          IN  /\ y \in DOMAIN tm
              /\ tm[y] = t
              /\ x \notin DOMAIN tm
              /\ \A k \in Indices(tiers) :
                    tiers[k].parent_ref = x =>
                       /\ tiers'[k].parent_ref = y
                       /\ tm[tiers'[k].parent_ref] = t]_vars

\* C4: no two distinct tiers of a Doc share an ID, in any state reached by
\* new_tier and tier renames.
TierIDsUnique ==
    \A i, j \in Indices(tiers) : tiers[i].ID = tiers[j].ID => i = j

\* C5: every ID new_annotation assigns is absent from the annotation index
\* when it is assigned and registered before the next one is allocated, so no
\* two annotations of the document ever share an ID.
AnnotationIDsFresh ==
    [][(call'.op = "new_annotation" /\ ret'.status = "ok") =>
          /\ \A i \in Indices(ret'.anns) :
                /\ ret'.anns[i] \notin DOMAIN ann_map
                /\ ret'.anns[i] \in DOMAIN ann_map'
          /\ \A i, j \in Indices(ret'.anns) : ret'.anns[i] = ret'.anns[j] => i = j
          /\ UniqueAnnotationIDs(tiers', ann_map')]_vars

\* two calls have created annotations on two dependent tiers, the second
\* call several at once
AnnotationIDsFreshWitness ==
    /\ call.op = "new_annotation" /\ ret.status = "ok"
    /\ nops = 2
    /\ Len(ret.anns) >= 2
    /\ Cardinality({p[1] : p \in Places(tiers)}) >= 3
    /\ Cardinality(DOMAIN ann_map) >= 4

\* C6: a rejected new_tier, new_linguistic_type, new_vocab or tier rename
\* leaves the Doc as it was: tier list, registries and serialised output.
RejectedLeavesDocUnchanged ==
    [][(/\ call'.op \in {"new_tier", "new_linguistic_type", "new_vocab", "Tier.ID"}
        /\ ret'.status # "ok") =>
          /\ tiers' = tiers
          /\ tier_map_of(tier_map', tiers') = tier_map_of(tier_map, tiers)
          /\ time_order' = time_order
          /\ ann_map' = ann_map
          /\ linguistic_types' = linguistic_types
          /\ vocabs' = vocabs
          /\ cve' = cve
          /\ to_xml_str(xml_root') = to_xml_str(xml_root)]_vars

\* C7: on a tier bound to a vocabulary, new_annotation rejects a request with
\* a value that is not a member with ValueError, allocating nothing; for a
\* member value it succeeds and the created annotation refers to the ID of
\* the entry holding that value.
VocabularyGate ==
    [][(call'.op = "new_annotation" /\ tier_vocab(call'.tier) # 0) =>
          LET t == call'.tier
              v == tier_vocab(t)
              vs == RequestValues(call')
          IN  IF \E i \in Indices(vs) : vs[i] \notin Members(v)
              THEN /\ ret'.status = "ValueError"
                   /\ UNCHANGED <<time_order, tiers, ann_map, xml_root>>
              ELSE (/\ stereotype(t) = SYM_ASSOC
                    /\ call'.from_ts = NoValue /\ call'.to_ts = NoValue
                    /\ call'.ann_ref_id \in DOMAIN ann_map) =>
                      /\ ret'.status = "ok"
                      /\ Len(ret'.anns) = 1
                      /\ \E i \in Indices(vocabs[v].entries) :
                            /\ cve[vocabs[v].entries[i]].value = call'.value
                            /\ annotation(tiers', ann_map', ret'.anns[1]).cve_ref =
                                  cve[vocabs[v].entries[i]].ID]_vars

\* C8: every annotation of every vocabulary-bound tier has a value that is a
\* member of the tier's vocabulary, after any completed mutation.
VocabularyMembership ==
    \A t \in Indices(tiers) :
        tier_vocab(t) # 0 =>
            \A a \in Indices(tiers[t].annotations) :
                tiers[t].annotations[a].value \in Members(tier_vocab(t))

\* C9: on an Included_In tier, new_annotation with span [from, to] and
\* referent r is accepted when r.from <= from and to <= r.to, and rejected
\* with ValueError, creating nothing, when a bound of the span lies outside
\* [r.from, r.to].
IncludedInContainment ==
    [][(/\ call'.op = "new_annotation"
        /\ stereotype(call'.tier) = INCL
        /\ call'.from_ts # NoValue /\ call'.to_ts # NoValue
        /\ call'.ann_ref_id \in DOMAIN ann_map
        /\ from_ts(tiers, ann_map, annotation(tiers, ann_map, call'.ann_ref_id)) # NoID
        /\ to_ts(tiers, ann_map, annotation(tiers, ann_map, call'.ann_ref_id)) # NoID) =>
          LET r == annotation(tiers, ann_map, call'.ann_ref_id)
              rfrom == time_order[from_ts(tiers, ann_map, r)]
              rto == time_order[to_ts(tiers, ann_map, r)]
              Outside(x) == x < rfrom \/ x > rto
          IN  /\ (rfrom <= call'.from_ts /\ call'.to_ts <= rto) =>
                    ret'.status = "ok" /\ Len(ret'.anns) = 1
              /\ (Outside(call'.from_ts) \/ Outside(call'.to_ts)) =>
                    ret'.status = "ValueError" /\ UNCHANGED docvars]_vars

\* C10: on a Time_Subdivision tier, N values with N-1 interior points for a
\* referent r yield exactly N alignable annotations, in value order, over the
\* consecutive pairs of the boundaries r.from, sorted interior points, r.to.
TimeSubdivisionPartition ==
    [][(/\ call'.op = "new_annotation"
        /\ stereotype(call'.tier) = TIME_SUB
        /\ call'.from_ts = NoValue /\ call'.to_ts = NoValue
        /\ call'.ann_ref_id \in DOMAIN ann_map
        /\ call'.timeslots_given
        /\ Len(RequestValues(call')) >= 1
        /\ Len(call'.timeslots) = Len(RequestValues(call')) - 1
        /\ \A i \in Indices(RequestValues(call')) :
              validate_value_ok(call'.tier, RequestValues(call')[i])
        /\ LET r == annotation(tiers, ann_map, call'.ann_ref_id)
               rf == from_ts(tiers, ann_map, r)
               rt == to_ts(tiers, ann_map, r)
           IN  /\ rf # NoID /\ rt # NoID
               /\ time_order[rf] # NoValue /\ time_order[rt] # NoValue
               /\ \A i \in Indices(call'.timeslots) :
                     /\ time_order[rf] < call'.timeslots[i]
                     /\ call'.timeslots[i] < time_order[rt]) =>
          LET t == call'.tier
              vs == RequestValues(call')
              N == Len(vs)
              r == annotation(tiers, ann_map, call'.ann_ref_id)
              old == Len(tiers[t].annotations)
              new(i) == tiers'[t].annotations[old + i]
          IN  /\ ret'.status = "ok"
              /\ Len(ret'.anns) = N
              /\ Len(tiers'[t].annotations) = old + N
              /\ \A i \in 1..N :
                    /\ new(i).ID = ret'.anns[i]
                    /\ new(i).kind = "time"
                    /\ new(i).value = vs[i]
                    /\ time_order'[new(i).from_ts] <= time_order'[new(i).to_ts]
              /\ new(1).from_ts = from_ts(tiers, ann_map, r)
              /\ new(N).to_ts = to_ts(tiers, ann_map, r)
              /\ \A i \in 1..(N - 1) : new(i).to_ts = new(i + 1).from_ts
              /\ \A x \in {call'.timeslots[i] : i \in Indices(call'.timeslots)} :
                    Count([i \in 1..(N - 1) |-> time_order'[new(i).to_ts]], x) =
                       Count(call'.timeslots, x)]_vars

\* three values with the interior points given out of order: 4, then 2
TimeSubdivisionPartitionWitness ==
    /\ call.op = "new_annotation" /\ ret.status = "ok"
    /\ stereotype(call.tier) = TIME_SUB
    /\ call.timeslots = <<4, 2>>
    /\ Len(ret.anns) = 3
    /\ \E a \in Indices(tiers[call.tier].annotations) :
          /\ time_order[tiers[call.tier].annotations[a].from_ts] = 2
          /\ time_order[tiers[call.tier].annotations[a].to_ts] = 4

\* C11: on a Time_Subdivision tier, a request with an interior point that is
\* missing or not strictly inside the referent's span (r.from, r.to) is
\* rejected before anything is allocated: time registry, tier annotation
\* lists and annotation index are unchanged.
TimeSubdivisionAllOrNothing ==
    [][(/\ call'.op = "new_annotation"
        /\ stereotype(call'.tier) = TIME_SUB
        /\ call'.ann_ref_id \in DOMAIN ann_map
        /\ call'.timeslots_given
        /\ LET r == annotation(tiers, ann_map, call'.ann_ref_id)
               rf == from_ts(tiers, ann_map, r)
               rt == to_ts(tiers, ann_map, r)
           IN  /\ rf # NoID /\ rt # NoID
               /\ time_order[rf] # NoValue /\ time_order[rt] # NoValue
               /\ \E i \in Indices(call'.timeslots) :
                     \/ call'.timeslots[i] = NoValue
                     \/ call'.timeslots[i] <= time_order[rf]
                     \/ call'.timeslots[i] >= time_order[rt]) =>
          /\ ret'.status = "ValueError"
          /\ ret'.anns = <<>>
          /\ UNCHANGED <<time_order, tiers, ann_map, xml_root>>]_vars

\* three values were asked for with the points 2 and 5, 5 being the
\* referent's end: the call was rejected and the tier is still empty
TimeSubdivisionAllOrNothingWitness ==
    /\ call.op = "new_annotation" /\ ret.status = "ValueError"
    /\ stereotype(call.tier) = TIME_SUB
    /\ call.timeslots = <<2, 5>> /\ Len(RequestValues(call)) = 3
    /\ nops = 1
    /\ tiers[call.tier].annotations = <<>>
    /\ DOMAIN time_order = {1, 2}

\* C12: on a Time_Subdivision tier with a valid referent, a request with
\* N > 1 values is rejected unless exactly N-1 interior points are supplied,
\* and a request with a single value and no interior points succeeds with
\* one annotation over the referent's from and to slots.
TimeSubdivisionPointCount ==
    [][(/\ call'.op = "new_annotation"
        /\ stereotype(call'.tier) = TIME_SUB
        /\ call'.from_ts = NoValue /\ call'.to_ts = NoValue
        /\ call'.ann_ref_id \in DOMAIN ann_map
        /\ \A i \in Indices(RequestValues(call')) :
              validate_value_ok(call'.tier, RequestValues(call')[i])
        /\ LET r == annotation(tiers, ann_map, call'.ann_ref_id)
               rf == from_ts(tiers, ann_map, r)
               rt == to_ts(tiers, ann_map, r)
           IN  /\ rf # NoID /\ rt # NoID
               /\ time_order[rf] # NoValue /\ time_order[rt] # NoValue) =>
          LET t == call'.tier
              N == Len(RequestValues(call'))
              r == annotation(tiers, ann_map, call'.ann_ref_id)
              supplied == IF call'.timeslots_given THEN Len(call'.timeslots) ELSE 0
              old == Len(tiers[t].annotations)
          IN  /\ (N > 1 /\ supplied # N - 1) =>
                    ret'.status = "ValueError" /\ UNCHANGED docvars
              /\ (N = 1 /\ supplied = 0) =>
                    /\ ret'.status = "ok"
                    /\ Len(ret'.anns) = 1
                    /\ Len(tiers'[t].annotations) = old + 1
                    /\ tiers'[t].annotations[old + 1].ID = ret'.anns[1]
                    /\ tiers'[t].annotations[old + 1].from_ts = from_ts(tiers, ann_map, r)
                    /\ tiers'[t].annotations[old + 1].to_ts = to_ts(tiers, ann_map, r)
                    /\ time_order' = time_order]_vars

\* C13: on a Symbolic_Association tier, a successful new_annotation creates
\* exactly one reference annotation pointing at the referent, and the from
\* and to slots read on the created annotation right after the call are the
\* referent's.
SymbolicAssociationSpan ==
    [][(/\ call'.op = "new_annotation"
        /\ stereotype(call'.tier) = SYM_ASSOC
        /\ ret'.status = "ok") =>
          LET t == call'.tier
              r == annotation(tiers, ann_map, call'.ann_ref_id)
              old == Len(tiers[t].annotations)
              new == tiers'[t].annotations[old + 1]
          IN  /\ Len(ret'.anns) = 1
              /\ Len(tiers'[t].annotations) = old + 1
              /\ new.ID = ret'.anns[1]
              /\ new.kind = "ref"
              /\ new.ref_id = call'.ann_ref_id
              /\ from_ts(tiers', ann_map', new) = from_ts(tiers, ann_map, r)
              /\ to_ts(tiers', ann_map', new) = to_ts(tiers, ann_map, r)]_vars

\* C14: on a Symbolic_Subdivision tier the annotations created for one
\* referent form one chain in creation order over any number of calls: the
\* first annotation of a call points back at the last existing child of the
\* referent (at nothing when there is none), every other one at the
\* annotation created just before it.
SymbolicSubdivisionChain ==
    [][(/\ call'.op = "new_annotation"
        /\ stereotype(call'.tier) = SYM_SUB
        /\ call'.from_ts = NoValue /\ call'.to_ts = NoValue
        /\ call'.ann_ref_id \in DOMAIN ann_map
        /\ Len(RequestValues(call')) >= 1
        /\ \A i \in Indices(RequestValues(call')) :
              validate_value_ok(call'.tier, RequestValues(call')[i])) =>
          LET t == call'.tier
              vs == RequestValues(call')
              N == Len(vs)
              anns == tiers[t].annotations
              kids == {i \in Indices(anns) : anns[i].ref_id = call'.ann_ref_id}
              tail == IF kids = {} THEN NoID ELSE anns[Max(kids)].ID
              old == Len(anns)
              new(i) == tiers'[t].annotations[old + i]
          IN  /\ ret'.status = "ok"
              /\ Len(ret'.anns) = N
              /\ Len(tiers'[t].annotations) = old + N
              /\ \A i \in 1..N :
                    /\ new(i).ID = ret'.anns[i]
                    /\ new(i).kind = "ref"
                    /\ new(i).ref_id = call'.ann_ref_id
                    /\ new(i).value = vs[i]
              /\ new(1).previous = tail
              /\ \A i \in 2..N : new(i).previous = new(i - 1).ID]_vars

\* C15: parsing a document with a reference annotation whose target ID is
\* the ID of no annotation of the document fails with the corruption error
\* (ValueError) and returns no Doc; no parsed Doc holds a reference
\* annotation with a target ID and no resolved target.
OrphanReferenceDetected ==
    /\ (/\ call.op = "read_eaf"
        /\ \E t \in Indices(xml_root.tiers) : \E a \in Indices(xml_root.tiers[t].anns) :
              LET n == xml_root.tiers[t].anns[a]
              IN  /\ n.kind = "REF_ANNOTATION"
                  /\ \A u \in Indices(xml_root.tiers) :
                        \A b \in Indices(xml_root.tiers[u].anns) :
                           xml_root.tiers[u].anns[b].ANNOTATION_ID # n.ANNOTATION_REF) =>
          ret.status # "ok"
    /\ (call.op \in {"read_eaf", "parse_string"} /\ ret.status = "ok") =>
          \A p \in Places(tiers) :
             LET o == tiers[p[1]].annotations[p[2]]
             IN  (o.kind = "ref" /\ o.ref_id # NoID) => o.ref # NoID

EntryList(vs, es, v) ==
    [i \in Indices(vs[v].entries) |-> <<es[vs[v].entries[i]].ID,
                                        es[vs[v].entries[i]].value>>]

\* C17: new_entry rejects a blank value, a value already present and an
\* explicit ID already present, and leaves the vocabulary as it was; after
\* any sequence of new_entry and remove the entries of the vocabulary have
\* pairwise distinct values and pairwise distinct IDs.
EntriesDistinct ==
    [][call'.op \in {"new_entry", "remove"} =>
          LET v == call'.tier
              old == EntryList(vocabs, cve, v)
              new == EntryList(vocabs', cve', v)
          IN  /\ (/\ call'.op = "new_entry"
                  /\ \/ call'.value = ""
                     \/ \E i \in Indices(old) : old[i][2] = call'.value
                     \/ call'.ann # NoID /\ \E i \in Indices(old) : old[i][1] = call'.ann) =>
                    /\ ret'.status = "ValueError"
                    /\ new = old
                    /\ vocabs' = vocabs
                    /\ vocab_contents(vocabs', cve') = vocab_contents(vocabs, cve)
                    /\ xml_root' = xml_root
              /\ \A i, j \in Indices(new) :
                    (new[i][1] = new[j][1] \/ new[i][2] = new[j][2]) => i = j]_vars

\* an entry was removed and its value and its ID were then given to a new
\* entry, and a further new_entry with that value has been rejected
EntriesDistinctWitness ==
    /\ call.op = "new_entry" /\ ret.status = "ValueError"
    /\ nops = 3
    /\ Truthy(call.value)
    /\ \E i \in Indices(vocabs[1].entries) :
          /\ vocabs[1].entries[i] \notin {1, 2}
          /\ cve[vocabs[1].entries[i]].value = call.value
          /\ cve[vocabs[1].entries[i]].ID = 1
    /\ Len(vocabs[1].entries) = 2

\* C18: new_entry puts the new entry at the end of the vocabulary's entry
\* list by default, right after prev_entry when that is given, and right
\* before next_entry when that is given; the other entries keep their
\* relative order, and the serialised entries are in the in-memory order.
EntryPlacement ==
    [][(call'.op = "new_entry" /\ ret'.status = "ok") =>
          LET v == call'.tier
              child == ret'.anns[1]
              prev_entry == call'.from_ts
              next_entry == call'.to_ts
              old == vocabs[v].entries
              new == vocabs'[v].entries
              pos == IndexOf(new, child)
              nodes == xml_root'.vocabs[v].entries
              back == parse_string(to_xml_str(xml_root'))
          IN  /\ Cardinality({i \in Indices(new) : new[i] = child}) = 1
              /\ IF prev_entry # 0
                 THEN pos > 1 /\ new[pos - 1] = prev_entry
                 ELSE IF next_entry # 0
                 THEN pos < Len(new) /\ new[pos + 1] = next_entry
                 ELSE pos = Len(new)
              /\ RemoveAt(new, pos) = old
              /\ [i \in Indices(nodes) |-> nodes[i].node] = new
              /\ [i \in Indices(nodes) |-> <<nodes[i].CVE_ID, nodes[i].text>>]
                    = EntryList(vocabs', cve', v)
              /\ EntryList(back.vocabs, back.cve, v) = EntryList(vocabs', cve', v)]_vars

\* an entry has been inserted between the two entries of the parsed
\* vocabulary, as the successor of the first
EntryPlacementWitness ==
    /\ call.op = "new_entry" /\ ret.status = "ok"
    /\ call.from_ts = 1
    /\ vocabs[1].entries = <<1, ret.anns[1], 2>>
    /\ [i \in 1..3 |-> xml_root.vocabs[1].entries[i].node] = vocabs[1].entries

\* C19: after remove(entry), in any state reached by insertions, removals
\* and in-place value edits, the entry is gone from the ordered list, from
\* the ID index and from the value index: iteration does not yield it,
\* has_id(entry.ID) is false, and no key of the value index maps to it.
RemovePurgesEntry ==
    [][(call'.op = "remove" /\ ret'.status = "ok") =>
          LET v == call'.tier
              child == call'.ann
              vocab == vocabs'[v]
          IN  /\ \A i \in Indices(vocab.entries) : vocab.entries[i] # child
              /\ cve[child].ID \notin DOMAIN vocab.entries_map
              /\ \A k \in DOMAIN vocab.values_map : vocab.values_map[k] # child]_vars

\* C20: in the TimeSlot ordering an unanchored slot is earlier than any
\* anchored slot, and between two unanchored slots a and b neither a < b
\* nor a > b holds.
UnanchoredOrdering ==
    (call.op \in {"__lt__", "__gt__"} /\ call.type_id = "TimeSlot") =>
        LET a == time_order[call.ann]
            b == time_order[call.ann_ref_id]
        IN  /\ (a = NoValue /\ b # NoValue) => (ret.value <=> call.op = "__lt__")
            /\ (a # NoValue /\ b = NoValue) => (ret.value <=> call.op = "__gt__")
            /\ (a = NoValue /\ b = NoValue) => ~ret.value

\* C21: new_annotation on a tier of stereotype None or Included_In rejects
\* an explicit span whose from is not strictly less than its to (parsing
\* accepts such annotations unchecked).
SpanOrderedAtCreation ==
    [][(/\ call'.op = "new_annotation"
        /\ stereotype(call'.tier) \in {None, INCL}
        /\ call'.from_ts # NoValue /\ call'.to_ts # NoValue
        /\ ~(call'.from_ts < call'.to_ts)) =>
          /\ ret'.status # "ok"
          /\ UNCHANGED docvars]_vars

\* C22: on a Symbolic_Association tier new_annotation takes exactly one
\* value: a request with a non-empty values list is rejected and creates
\* nothing.
SymbolicAssociationOneValue ==
    [][(/\ call'.op = "new_annotation"
        /\ stereotype(call'.tier) = SYM_ASSOC
        /\ call'.values # <<>>) =>
          /\ ret'.status # "ok"
          /\ UNCHANGED docvars]_vars

\* C23: new_annotation checks the shape of its input before it changes
\* anything: a tier of stereotype None or Included_In rejects a missing from
\* or to, a tier of any other stereotype rejects a from or to, a referent ID
\* that is not in the annotation index is rejected, and a tier whose type has
\* a stereotype rejects a request without a referent.
InputShapeEnforced ==
    [][call'.op = "new_annotation" =>
          LET c == call'
              type_ref == linguistic_types[get_linguistic_type(linguistic_types,
                                              tiers[c.tier].type_ref_id)]
              alignable == type_ref.constraints \in {None, INCL}
          IN  (\/ alignable /\ (c.from_ts = NoValue \/ c.to_ts = NoValue)
               \/ ~alignable /\ (c.from_ts # NoValue \/ c.to_ts # NoValue)
               \/ c.ann_ref_id # NoID /\ c.ann_ref_id \notin DOMAIN ann_map
               \/ type_ref.constraints # None /\ c.ann_ref_id = NoID) =>
                  /\ ret'.status = "ValueError"
                  /\ UNCHANGED docvars]_vars

\* after an annotation was created, a request on the Symbolic_Subdivision
\* tier without a referent, or with a span, has been rejected
InputShapeEnforcedWitness ==
    /\ call.op = "new_annotation" /\ ret.status = "ValueError"
    /\ nops = 2
    /\ stereotype(call.tier) = SYM_SUB
    /\ \/ call.ann_ref_id = NoID
       \/ call.from_ts # NoValue /\ call.ann_ref_id = 2
    /\ Cardinality(DOMAIN ann_map) > 1

\* C24: new_annotation on a tier whose stereotype is none of None,
\* Included_In, Time_Subdivision, Symbolic_Subdivision, Symbolic_Association
\* always ends in a failure, NotImplementedError or a precondition error,
\* and never returns normally or changes a registry.
UnsupportedStereotypeFails ==
    [][(/\ call'.op = "new_annotation"
        /\ linguistic_types[get_linguistic_type(linguistic_types,
              tiers[call'.tier].type_ref_id)].constraints \notin SupportedStereotypes) =>
          /\ ret'.status \in {"NotImplementedError", "ValueError"}
          /\ UNCHANGED docvars]_vars

\* after an annotation was created on the unconstrained tier, a well-formed
\* request on tier "X" that refers to it has ended in NotImplementedError
UnsupportedStereotypeFailsWitness ==
    /\ call.op = "new_annotation" /\ ret.status = "NotImplementedError"
    /\ tiers[call.tier].ID = "X"
    /\ call.ann_ref_id = 3
    /\ nops = 2
    /\ Len(tiers[1].annotations) = 2
    /\ tiers[2].annotations = <<>>

\* the row Doc.to_csv_rows is to give for annotation a of tier t: tier ID,
\* participant, from, to, duration = to - from, text; cells of an annotation
\* without a span are blank
ExpectedRow(t, a) ==
    LET o == tiers[t].annotations[a]
        f == from_ts(tiers, ann_map, o)
        e == to_ts(tiers, ann_map, o)
        spanned == f # NoID /\ e # NoID /\ time_order[f] # NoValue
                   /\ time_order[e] # NoValue
    IN  [tier |-> tiers[t].ID, participant |-> tiers[t].participant,
         from_ts |-> IF spanned THEN <<time_order[f]>> ELSE <<>>,
         to_ts |-> IF spanned THEN <<time_order[e]>> ELSE <<>>,
         duration |-> IF spanned THEN <<time_order[e] - time_order[f]>> ELSE <<>>,
         text |-> o.value]

\* C25: to_csv_rows gives exactly one row per annotation of every tier, in
\* tier order and then annotation order, and each row carries the tier ID,
\* the participant, from, to, the duration (to minus from) and the text, for
\* reference annotations as for alignable ones.
CsvRowPerAnnotation ==
    /\ LiveRows.ok
    /\ LiveRows.rows = Flatten([t \in Indices(tiers) |->
                                  [a \in Indices(tiers[t].annotations) |->
                                      ExpectedRow(t, a)]])

\* C26: parsing aborts and returns no Doc whenever a tier's linguistic-type
\* ID is the ID of no linguistic type of the document, whenever an alignable
\* annotation refers to a time-slot ID that the time registry lacks, and
\* whenever two tiers share an ID.
CorruptStructureAborts ==
    call.op = "read_eaf" =>
        LET tns == xml_root.tiers
            type_ids == {xml_root.types[i].LINGUISTIC_TYPE_ID : i \in Indices(xml_root.types)}
            slot_ids == {xml_root.time[i].ID : i \in Indices(xml_root.time)}
            unknown_type == \E t \in Indices(tns) : tns[t].LINGUISTIC_TYPE_REF \notin type_ids
            dangling_slot ==
                \E t \in Indices(tns) : \E a \in Indices(tns[t].anns) :
                   /\ tns[t].anns[a].kind = "ALIGNABLE_ANNOTATION"
                   /\ \/ tns[t].anns[a].TIME_SLOT_REF1 \notin slot_ids
                      \/ tns[t].anns[a].TIME_SLOT_REF2 \notin slot_ids
            repeated_tier == \E t, u \in Indices(tns) : t # u /\ tns[t].TIER_ID = tns[u].TIER_ID
        IN  (unknown_type \/ dangling_slot \/ repeated_tier) =>
               /\ ret.status \in {"ValueError", "AttributeError"}
               /\ ret.status = "ValueError" <=> (dangling_slot \/ repeated_tier)
               /\ tiers = <<>>
               /\ DOMAIN ann_map = {} /\ DOMAIN time_order = {}
               /\ linguistic_types = <<>>

\* reading a text whose only defect is a tier of an unknown type has failed
CorruptStructureAbortsWitness ==
    /\ call.op = "read_eaf"
    /\ ret.status = "AttributeError"
    /\ xml_root = UnknownTypeText
    /\ tiers = <<>>

\* C27: a successful creation changes the time registry only as its
\* stereotype licenses: None / Included_In adds exactly two new slots and one
\* annotation; Symbolic_Association and Symbolic_Subdivision add no slot;
\* Time_Subdivision with N values adds exactly N-1 slots and uses the
\* referent's own from and to slots as outer boundaries.  Every new slot ID
\* was absent from the registry before, and no slot or annotation that
\* existed is modified.
CreationFrame ==
    [][(call'.op = "new_annotation" /\ ret'.status = "ok") =>
          LET c == call'
              t == c.tier
              type_ref == linguistic_types[get_linguistic_type(linguistic_types,
                                              tiers[t].type_ref_id)]
              st == type_ref.constraints
              N == Len(RequestValues(c))
              added == DOMAIN time_order' \ DOMAIN time_order
              before == Len(tiers[t].annotations)
              made(i) == tiers'[t].annotations[before + i]
              nodes == xml_root'.time
          IN  /\ DOMAIN time_order \subseteq DOMAIN time_order'
              /\ \A id \in DOMAIN time_order : time_order'[id] = time_order[id]
              /\ SubSeq(nodes, 1, Len(xml_root.time)) = xml_root.time
              /\ {nodes[i].ID : i \in (Len(xml_root.time) + 1)..Len(nodes)} = added
              /\ Len(nodes) = Len(xml_root.time) + Cardinality(added)
              /\ \A p \in Places(tiers) :
                    tiers'[p[1]].annotations[p[2]] = tiers[p[1]].annotations[p[2]]
              /\ \A id \in DOMAIN ann_map : ann_map'[id] = ann_map[id]
              /\ st \in {None, INCL} =>
                    /\ Cardinality(added) = 2
                    /\ Len(ret'.anns) = 1
                    /\ Len(tiers'[t].annotations) = before + 1
                    /\ {made(1).from_ts, made(1).to_ts} = added
                    /\ time_order'[made(1).from_ts] = c.from_ts
                    /\ time_order'[made(1).to_ts] = c.to_ts
              /\ st \in {SYM_ASSOC, SYM_SUB} => added = {}
              /\ st = TIME_SUB =>
                    LET r == annotation(tiers, ann_map, c.ann_ref_id)
                    IN  /\ N >= 1
                        /\ Cardinality(added) = N - 1
                        /\ Len(ret'.anns) = N
                        /\ made(1).from_ts = from_ts(tiers, ann_map, r)
                        /\ made(N).to_ts = to_ts(tiers, ann_map, r)
                        /\ {made(i).to_ts : i \in 1..(N - 1)} = added
                        /\ \A i \in 1..(N - 1) : made(i + 1).from_ts = made(i).to_ts]_vars

\* after a creation on the unconstrained tier added two slots, a
\* Time_Subdivision request with three values has added two more
CreationFrameWitness ==
    /\ call.op = "new_annotation" /\ ret.status = "ok"
    /\ stereotype(call.tier) = TIME_SUB
    /\ Len(ret.anns) = 3
    /\ nops = 2
    /\ Cardinality(DOMAIN time_order) = 6
    /\ Len(tiers[1].annotations) = 2

\* C28: after any sequence of successful new_tier calls every tier that
\* new_tier created has a parent tier exactly when its linguistic type has a
\* stereotype, and the parent is a tier of the same Doc; new_tier rejects a
\* stereotyped type without a parent and an unconstrained type with one.
NewTierParentRule ==
    [][call'.op = "new_tier" =>
          LET c == call'
              lt == get_linguistic_type(linguistic_types, c.type_id)
              constraints == linguistic_types[lt].constraints
              created == {t \in Indices(tiers') : t > Len(TierDoc.tiers)}
          IN  /\ (/\ c.tier_id # None /\ lt # 0
                  /\ \/ constraints # None /\ c.parent_id = None
                     \/ constraints = None /\ c.parent_id # None) =>
                    /\ ret'.status = "ValueError"
                    /\ tiers' = tiers /\ xml_root' = xml_root
              /\ ret'.status = "ok" =>
                    /\ Len(tiers') = Len(tiers) + 1
                    /\ tiers'[Len(tiers')].ID = c.tier_id
                    /\ tiers'[Len(tiers')].parent_ref = c.parent_id
              /\ \A t \in created :
                    LET type_ref == linguistic_types'[get_linguistic_type(
                                        linguistic_types', tiers'[t].type_ref_id)]
                    IN  /\ tiers'[t].parent_ref # None <=> type_ref.constraints # None
                        /\ tiers'[t].parent_ref # None =>
                              \E p \in Indices(tiers') :
                                 /\ p # t
                                 /\ tiers'[p].ID = tiers'[t].parent_ref
                                 /\ \E k \in Indices(tiers'[p].children) :
                                       tiers'[p].children[k] = t]_vars

\* a root tier and then a Symbolic_Subdivision tier under it have been
\* created
NewTierParentRuleWitness ==
    /\ call.op = "new_tier" /\ ret.status = "ok"
    /\ Len(tiers) = Len(TierDoc.tiers) + 2
    /\ tiers[4].parent_ref = None
    /\ tiers[5].parent_ref = tiers[4].ID
    /\ tiers[4].children = <<5>>
    /\ stereotype(5) = SYM_SUB

\* Doc.roots: the tiers without a parent reference
roots == {t \in Indices(tiers) : ~Truthy(tiers[t].parent_ref)}

\* C29: after parsing and after any sequence of new_tier calls and tier
\* renames, tier c is in the children list of tier p exactly when c's parent
\* reference equals p's current ID, each tier is in at most one children
\* list, and the root tiers are exactly the tiers with no parent reference.
TierForestConsistent ==
    LET child_of(c, p) == \E k \in Indices(tiers[p].children) : tiers[p].children[k] = c
    IN  /\ \A c, p \in Indices(tiers) :
              child_of(c, p) <=> tiers[c].parent_ref = tiers[p].ID
        /\ \A c, p, q \in Indices(tiers) :
              (child_of(c, p) /\ child_of(c, q)) => p = q
        /\ \A c, p \in Indices(tiers) :
              child_of(c, p) => Count(tiers[p].children, c) = 1
        /\ roots = {t \in Indices(tiers) : tiers[t].parent_ref = None}
        /\ roots = {t \in Indices(tiers) : \A p \in Indices(tiers) : ~child_of(t, p)}

\* C30: the value index of a vocabulary follows in-place value edits: after
\* the value of an entry was edited from v to w, w held by no other entry,
\* has_value(w) is true, by_value(w) is that entry and has_value(v) is false;
\* a tier bound to the vocabulary then accepts w and rejects v.
ValueIndexFollowsEdits ==
    [][/\ (/\ call'.op = "CVEntry.value" /\ ret'.status = "ok"
           /\ \E i \in Indices(vocabs[1].entries) : vocabs[1].entries[i] = call'.ann
           /\ cve[call'.ann].value # call'.value
           /\ \A i \in Indices(vocabs[1].entries) :
                 cve[vocabs[1].entries[i]].value # call'.value) =>
             LET child == call'.ann
                 v == cve[child].value
                 w == call'.value
             IN  /\ has_value(vocabs'[1], w)
                 /\ by_value(vocabs'[1], w) = child
                 /\ ~has_value(vocabs'[1], v)
       /\ (/\ call'.op = "new_annotation"
           /\ tier_vocab(call'.tier) # 0
           /\ call'.ann_ref_id \in DOMAIN ann_map) =>
             (ret'.status = "ok" <=> call'.value \in Members(tier_vocab(call'.tier)))]_vars

=============================================================================
